---- MODULE Spec2Model ----
(***************************************************************************)
(* A model of the EtherIO command driver (src/eio.py): the command         *)
(* classifier _cmdcheck, the UDP retry engine and write validator          *)
(* eioudp.cmd, the stream variant eiotcp.cmd, and the port / pin / mac     *)
(* accessors of eiobase built on them.                                     *)
(*                                                                         *)
(* Bytes objects are sequences of integers 0..255.  Python's None is the   *)
(* one-element sequence <<-1>>, which no bytes object equals.  A call of a *)
(* Python function is a frame on the caller's stack; a frame's pc names    *)
(* the source line it is about to run.                                     *)
(***************************************************************************)
EXTENDS Integers, Sequences, FiniteSets, TLC

VARIABLES
    kind,               \* eiobase.kind of the device object in use
    retries,            \* eioudp.retries (class attribute, also eiotcp.retries)
    write_validate,     \* eioudp.write_validate
    _cnt_cmds,          \* eioudp._cnt_cmds
    _cnt_pkts,          \* eioudp._cnt_pkts
    _cnt_rd_retries,    \* eioudp._cnt_rd_retries
    _cnt_wr_retries,    \* eioudp._cnt_wr_retries
    _max_rd_retries,    \* eioudp._max_rd_retries
    _max_wr_retries,    \* eioudp._max_wr_retries
    tcp_cnt_cmds,       \* eiotcp._cnt_cmds
    dev,                \* the registers of the remote device
    nsock,              \* number of sockets currently open
    stack,              \* per caller: the frames of the calls in progress
    result,             \* per caller: how the last top-level call ended
    trace,              \* per caller: what the current top-level call did on the wire
    arg,                \* input of the pure function under check
    res                 \* its result

vars == << kind, retries, write_validate, _cnt_cmds, _cnt_pkts, _cnt_rd_retries,
           _cnt_wr_retries, _max_rd_retries, _max_wr_retries, tcp_cnt_cmds,
           dev, nsock, stack, result, trace, arg, res >>

counters == << _cnt_cmds, _cnt_pkts, _cnt_rd_retries, _cnt_wr_retries,
               _max_rd_retries, _max_wr_retries, tcp_cnt_cmds >>

config == << kind, retries, write_validate >>

-----------------------------------------------------------------------------
(* Bounds of the model *)

\* retry bounds range over 0..MaxRetries
MaxRetries == 1
\* a caller starts a new top-level call only while the statistics counters sum
\* to less than MaxStats, and clears them first otherwise
MaxStats == 2

-----------------------------------------------------------------------------
(* Bytes *)

None == << -1 >>

\* the printable ASCII characters, code 32 first
Printable ==
    << " ", "!", "dquote", "#", "$", "%", "&", "'", "(", ")", "*", "+", ",", "-", ".", "/",
       "0", "1", "2", "3", "4", "5", "6", "7", "8", "9", ":", ";", "<", "=", ">", "?",
       "@", "A", "B", "C", "D", "E", "F", "G", "H", "I", "J", "K", "L", "M", "N", "O",
       "P", "Q", "R", "S", "T", "U", "V", "W", "X", "Y", "Z", "[", "bslash", "]", "^", "_",
       "bquote", "a", "b", "c", "d", "e", "f", "g", "h", "i", "j", "k", "l", "m", "n", "o",
       "p", "q", "r", "s", "t", "u", "v", "w", "x", "y", "z", "{", "|", "}", "~" >>

ord(ch) == 31 + (CHOOSE i \in 1..Len(Printable) : Printable[i] = ch)

\* a bytes literal: b"!A" is b(<<"!", "A">>)
b(chars) == [i \in 1..Len(chars) |-> ord(chars[i])]

Byte == 0..255

\* bytes.lower(): ASCII upper-case letters become lower-case, other bytes stay
lower(bs) == [i \in 1..Len(bs) |-> IF bs[i] \in 65..90 THEN bs[i] + 32 ELSE bs[i]]

\* bytes.upper()
upper(bs) == [i \in 1..Len(bs) |-> IF bs[i] \in 97..122 THEN bs[i] - 32 ELSE bs[i]]

\* bs[:n]
Take(bs, n) == SubSeq(bs, 1, IF n < Len(bs) THEN n ELSE Len(bs))

\* bs[:-1]
DropLast(bs) == SubSeq(bs, 1, Len(bs) - 1)

\* bs[-1]
Last(bs) == bs[Len(bs)]

\* x in bs, for a bytes object x of length at most 1 (the empty one is in every bytes)
InBytes(x, bs) == Len(x) = 0 \/ \E i \in 1..Len(bs) : bs[i] = x[1]

RECURSIVE BitAnd(_, _)
BitAnd(x, y) ==
    IF x = 0 \/ y = 0 THEN 0
    ELSE (x % 2) * (y % 2) + 2 * BitAnd(x \div 2, y \div 2)

RECURSIVE BitOr(_, _)
BitOr(x, y) ==
    IF x = 0 THEN y ELSE IF y = 0 THEN x
    ELSE (IF x % 2 = 1 \/ y % 2 = 1 THEN 1 ELSE 0) + 2 * BitOr(x \div 2, y \div 2)

RECURSIVE BitXor(_, _)
BitXor(x, y) ==
    IF x = 0 THEN y ELSE IF y = 0 THEN x
    ELSE ((x + y) % 2) + 2 * BitXor(x \div 2, y \div 2)

\* 1 << n
Shl1(n) == 2 ^ n

-----------------------------------------------------------------------------
(* _cmdcheck: the command classifier *)

PortLower == b(<<"a", "b", "c", "d", "e", "f", "g", "h", "i">>)
PortUpper == b(<<"A", "B", "C", "D", "E", "F", "G", "H", "I">>)
PortAny   == PortLower \o PortUpper
\* the selector bytes with & among them
RegSelAmpersand == b(<<"_", "!", "@", "#", "$", "%", "&">>)

\* lines 503 and 506: b'_!@#$%'
RegSel == b(<<"_", "!", "@", "#", "$", "%">>)

\* line 500: a command that starts with a port letter gets the value marker "_"
normalize(cmd) == IF InBytes(Take(cmd, 1), PortAny) THEN b(<<"_">>) \o cmd ELSE cmd

\* line 503: a register read, selector + lower-case port letter
IsRegRead(cmd) ==
    Len(cmd) = 2 /\ InBytes(SubSeq(cmd, 1, 1), RegSel) /\ InBytes(SubSeq(cmd, 2, 2), PortLower)

\* the test of line 506 made with the lower-case port letters
IsRegWriteLower(cmd) ==
    Len(cmd) = 3 /\ InBytes(SubSeq(cmd, 1, 1), RegSel) /\ InBytes(SubSeq(cmd, 2, 2), PortLower)

\* line 506: a register write, selector + upper-case port letter + one byte
IsRegWrite(cmd) ==
    Len(cmd) = 3 /\ InBytes(SubSeq(cmd, 1, 1), RegSel) /\ InBytes(SubSeq(cmd, 2, 2), PortUpper)

\* line 511: eeprom erase, write disable, write enable
EEWriteCtl == { b(<<"'", "E">>), b(<<"'", "0">>), b(<<"'", "1">>) }

\* lines 503..530, on the normalized command
cmdcheck_norm(cmd) ==
    IF IsRegRead(cmd) THEN "read"
    ELSE IF IsRegWrite(cmd) THEN "verify"
    ELSE IF Len(cmd) = 5 /\ Take(cmd, 2) = b(<<"'", "R">>) THEN "read"
    ELSE IF Len(cmd) = 5 /\ Take(cmd, 2) = b(<<"'", "W">>) THEN "write"
    ELSE IF Len(cmd) = 5 /\ Take(cmd, 2) \in EEWriteCtl THEN "write"
    ELSE IF Len(cmd) = 4 /\ Take(cmd, 2) = b(<<"'", "r">>) THEN "read"
    ELSE IF Len(cmd) = 5 /\ Take(cmd, 2) = b(<<"'", "w">>) THEN "write"
    ELSE IF Take(cmd, 2) = b(<<"'", "@">>) /\ Len(cmd) = 5 THEN "write"
    ELSE IF Take(cmd, 2) = b(<<"'", "@">>) /\ Len(cmd) = 2 THEN "write"
    ELSE IF cmd = b(<<"S", "1", "A">>) THEN "read"
    ELSE IF cmd = b(<<"S", "0", "A">>) THEN "read"
    ELSE IF Take(cmd, 2) = b(<<"S", "A">>) THEN "read"
    ELSE "None"

\* _cmdcheck(cmd): "read", "write", "verify", or "None" for a bad command
_cmdcheck(cmd) ==
    IF cmd = b(<<"I", "O", "2", "4">>) THEN "read"
    ELSE IF cmd = b(<<"'", "I", "O", "7", "2">>) THEN "read"
    ELSE IF Len(cmd) = 0 \/ Take(cmd, 1) = b(<<"_">>) THEN "None"
    ELSE cmdcheck_norm(normalize(cmd))

-----------------------------------------------------------------------------
(* The device kinds and the remote device *)

Kinds == { "IO24R", "IO24T", "IO72T" }

\* eiobase.__init__: the letters of self.ports, in order
ports(k) ==
    IF k = "IO72T" THEN b(<<"A", "B", "C", "D", "E", "F", "G", "H", "I">>)
    ELSE b(<<"A", "B", "C">>)

\* __io.__init__: self.len
iolen(k) == IF k = "IO72T" THEN 72 ELSE 24

PORTDIRINPUT  == 255
PORTDIROUTPUT == 0

\* The register selectors a device of kind k implements: threshold (#) and
\* schmitt ($) on IO24R only; the IO24T/IO72T have the newer pull-up (%).
DevSel(k) ==
    IF k = "IO24R" THEN b(<<"_", "!", "@", "#", "$">>) ELSE b(<<"_", "!", "@", "%">>)

\* A register of the device is named by its normalized read command, "!a".
DevRegs(k) ==
    { << DevSel(k)[i], lower(ports(k))[j] >> : i \in 1..Len(DevSel(k)), j \in 1..Len(ports(k)) }

\* after power-on or reset every line is an input and every other register is 0
DevPowerOn(k) ==
    [r \in DevRegs(k) |-> IF r[1] = ord("!") THEN PORTDIRINPUT ELSE 0]

\* every line of every port made an output, the other registers as after power-on
DevAllOut(k) ==
    [r \in DevRegs(k) |-> IF r[1] = ord("!") THEN PORTDIROUTPUT ELSE 0]

\* the 6 bytes of the MAC address and the 2 bytes after them in the identify response
DevMac == << 0, 163, 213, 1, 42, 255 >>
DevIdent(k) ==
    (IF k = "IO72T" THEN b(<<"I", "O", "7", "2">>) ELSE b(<<"I", "O", "2", "4">>))
        \o DevMac \o << 1, 2 >>

\* the levels that the outside world drives on input lines
ExtLevels == { 0, 255 }

\* What register r reads as: the value register shows the latch on output lines
\* (direction bit 0) and the outside level ext on input lines (direction bit 1).
DevRead(d, r, ext) ==
    IF r[1] = ord("_")
    THEN BitOr(BitAnd(d[r], BitXor(d[<< ord("!"), r[2] >>], 255)),
               BitAnd(ext, d[<< ord("!"), r[2] >>]))
    ELSE d[r]

\* The device receives datagram pkt: its next registers and its response (None
\* when it sends none).  It stores what a register write carries, answers a
\* register read with the upper-cased command and the register's byte, answers
\* its identify command, resets on its reset command, answers an EEPROM read
\* or an SPI command with the command itself, and ignores the rest.
DevHandle(d, k, pkt, ext) ==
    LET n == normalize(pkt) IN
    IF pkt = (IF k = "IO72T" THEN b(<<"'", "I", "O", "7", "2">>) ELSE b(<<"I", "O", "2", "4">>))
    THEN [dev |-> d, rsp |-> DevIdent(k)]
    ELSE IF pkt = (IF k = "IO24R" THEN b(<<"'", "@">>) \o << 0, 170, 85 >> ELSE b(<<"'", "@">>))
    THEN [dev |-> DevPowerOn(k), rsp |-> None]
    ELSE IF IsRegRead(n) /\ n \in DevRegs(k)
    THEN [dev |-> d, rsp |-> upper(pkt) \o << DevRead(d, n, ext) >>]
    ELSE IF IsRegWrite(n) /\ lower(DropLast(n)) \in DevRegs(k)
    THEN [dev |-> [d EXCEPT ![lower(DropLast(n))] = Last(n)], rsp |-> None]
    ELSE IF Take(pkt, 2) \in { b(<<"'", "R">>), b(<<"'", "r">>) } \/ Take(pkt, 1) = b(<<"S">>)
    THEN [dev |-> d, rsp |-> pkt]
    ELSE [dev |-> d, rsp |-> None]

-----------------------------------------------------------------------------
(* Calls and frames *)

Callers == { 1, 2 }

\* the retries argument left at its default, None
NoRetries == -1

\* A frame: fn is the function, pc the place in it, then its arguments and
\* locals.  got is what the last call it made returned, retv what it returns,
\* exc the exception it raises.  The fields of the last line record what the
\* call has done so far and are read by no action: att the exchanges of the
\* base loop, rounds the read-compare rounds, resends the resends of the write
\* and rfails those of them that raised, rd0 and wr0 the retry counters at
\* entry, dirv the direction byte read, rb the last byte read back, and at
\* the loop whose raise statement raised exc ("" when a callee raised it).
Frame0 ==
    [ fn |-> "", pc |-> "start", cmd |-> << >>, retries |-> NoRetries, cmdtype |-> "None",
      tries |-> 0, data |-> None, rsp |-> None, msk |-> 255, vcmd |-> << >>,
      got |-> None, retv |-> None, exc |-> "",
      s |-> << >>, port |-> << >>, v |-> 0, io |-> 0, tok |-> "",
      att |-> 0, rounds |-> 0, resends |-> 0, rfails |-> 0, rd0 |-> 0, wr0 |-> 0,
      dirv |-> -1, rb |-> -1, at |-> "" ]

\* eioudp.cmd(cmd, addr, retries)
CmdFrame(cmd, r) == [Frame0 EXCEPT !.fn = "cmd", !.cmd = cmd, !.retries = r]

Depth(c) == Len(stack[c])
Top(c)   == stack[c][Len(stack[c])]
Idle(c)  == stack[c] = << >>

\* the stack of c with its top frame replaced by f
WithTop(c, f) == [stack EXCEPT ![c] = [@ EXCEPT ![Len(@)] = f]]

\* the stack of c with its top frame replaced by f and the callee g pushed
WithCall(c, f, g) == [stack EXCEPT ![c] = Append([@ EXCEPT ![Len(@)] = f], g)]

\* What the current top-level call has done: sockets opened, datagrams sent,
\* responses received by recvfrom, the last datagram sent, the number of
\* commands classified, and the statistics as they were when it began.
\* wrote is the command of the last value write that returned normally,
\* while only reads have been called since, and pinset the index and value
\* of the last pin set that returned normally, while only pin gets have been
\* called since (index -1 when there is none).
NoPin == [io |-> -1, tok |-> ""]
Trace0 == [opens |-> 0, sends |-> 0, recvs |-> 0, last |-> << >>, checks |-> 0,
           stats0 |-> << >>, wrote |-> << >>, pinset |-> NoPin]

\* How the last top-level call ended: status is "none" while it runs, "return",
\* or the exception raised; val is the value returned, exc the exception the
\* call caught, and s and port are the register of a port access.
Result0 == [fn |-> "", status |-> "none", val |-> None, exc |-> "", s |-> << >>, port |-> << >>]

-----------------------------------------------------------------------------
(* eioudp.cmd, lines 365..394: the retry engine *)

\* line 365: the retry bound in force
RetriesOf(r) == IF r = NoRetries THEN retries ELSE r

\* the command counted before it is classified
CmdsAfterCheckAlways(n, t) == n + 1

\* lines 367..372: _cnt_cmds after the classification of a command of type t
CmdsAfterCheck(n, t) == IF t = "None" THEN n ELSE n + 1

\* the comparison with >= in the place of >
TriesExceededEarly(tries, bound) == tries >= bound

\* lines 390 and 420: the retry bound is exhausted
TriesExceeded(tries, bound) == tries > bound

\* lines 365..373
CmdStart(c) ==
    /\ ~Idle(c) /\ Top(c).fn = "cmd" /\ Top(c).pc = "start"
    /\ LET f == Top(c)
           t == _cmdcheck(f.cmd)
       IN /\ _cnt_cmds' = CmdsAfterCheck(_cnt_cmds, t)
          /\ stack' = WithTop(c,
                IF t = "None"
                THEN [f EXCEPT !.pc = "raise", !.exc = "ValueError"]
                ELSE [f EXCEPT !.retries = RetriesOf(f.retries), !.cmdtype = t, !.tries = 0,
                               !.rd0 = _cnt_rd_retries, !.wr0 = _cnt_wr_retries,
                               !.pc = "open"])
    /\ trace' = [trace EXCEPT ![c].checks = @ + 1]
    /\ UNCHANGED << config, _cnt_pkts, _cnt_rd_retries, _cnt_wr_retries, _max_rd_retries,
                    _max_wr_retries, tcp_cnt_cmds, dev, nsock, result, arg, res >>

\* lines 375..376 and 411..412: with socket(AF_INET, SOCK_DGRAM) as mySocket
SockOpen(c) ==
    /\ ~Idle(c) /\ Top(c).fn = "cmd" /\ Top(c).pc \in { "open", "ropen" }
    /\ LET f == Top(c) IN
       stack' = WithTop(c, IF f.pc = "open"
                           THEN [f EXCEPT !.pc = "send", !.att = @ + 1]
                           ELSE [f EXCEPT !.pc = "rsend"])
    /\ nsock' = nsock + 1
    /\ trace' = [trace EXCEPT ![c].opens = @ + 1]
    /\ UNCHANGED << config, counters, dev, result, arg, res >>

\* lines 385..392, and the exit of the with block: the frame after a failed exchange
Except(f) ==
    IF TriesExceeded(f.tries + 1, f.retries)
    THEN [f EXCEPT !.tries = @ + 1, !.rsp = None, !.pc = "raise", !.exc = "TimeoutError",
                   !.at = "base"]
    ELSE [f EXCEPT !.tries = @ + 1, !.rsp = None, !.pc = "open"]

\* the depth recorded before the bound is tested
MaxRdAfterUntested(m, t, bound) == IF t > m THEN t ELSE m

\* line 391: _max_rd_retries after a failed exchange that left tries at t
MaxRdAfter(m, t, bound) == IF ~TriesExceeded(t, bound) /\ t > m THEN t ELSE m

\* the exception path that leaves the socket open
FailedOpen(c) ==
    /\ stack' = WithTop(c, Except(Top(c)))
    /\ _cnt_rd_retries' = _cnt_rd_retries + 1
    /\ _max_rd_retries' = MaxRdAfter(_max_rd_retries, Top(c).tries + 1, Top(c).retries)
    /\ nsock' = nsock
    /\ UNCHANGED << config, _cnt_cmds, _cnt_pkts, _cnt_wr_retries, _max_wr_retries,
                    tcp_cnt_cmds, dev, result, trace, arg, res >>

\* the exception path of the base loop, shared by sendto and recvfrom
Failed(c) ==
    /\ stack' = WithTop(c, Except(Top(c)))
    /\ _cnt_rd_retries' = _cnt_rd_retries + 1
    /\ _max_rd_retries' = MaxRdAfter(_max_rd_retries, Top(c).tries + 1, Top(c).retries)
    /\ nsock' = nsock - 1
    /\ UNCHANGED << config, _cnt_cmds, _cnt_pkts, _cnt_wr_retries, _max_wr_retries,
                    tcp_cnt_cmds, dev, result, trace, arg, res >>

\* the exception of sendto dropped, as that of the resend is
SendFailSwallowed(c) ==
    /\ ~Idle(c) /\ Top(c).fn = "cmd" /\ Top(c).pc = "send"
    /\ stack' = WithTop(c, [Top(c) EXCEPT !.pc = "validate", !.data = None])
    /\ nsock' = nsock - 1
    /\ UNCHANGED << config, counters, dev, result, trace, arg, res >>

\* line 378: sendto raises
SendFail(c) ==
    /\ ~Idle(c) /\ Top(c).fn = "cmd" /\ Top(c).pc = "send"
    /\ Failed(c)

\* the command sent as _cmdcheck normalizes it, with the value marker
SendOkNormalized(c) ==
    /\ ~Idle(c) /\ Top(c).fn = "cmd" /\ Top(c).pc = "send"
    /\ \E delivered \in BOOLEAN, ext \in ExtLevels :
         LET f == Top(c)
             h == DevHandle(dev, kind, normalize(f.cmd), ext)
         IN /\ dev' = IF delivered THEN h.dev ELSE dev
            /\ IF f.cmdtype = "read"
               THEN /\ stack' = WithTop(c, [f EXCEPT !.pc = "recv",
                                                     !.rsp = IF delivered THEN h.rsp ELSE None])
                    /\ nsock' = nsock
               ELSE /\ stack' = WithTop(c, [f EXCEPT !.pc = "validate", !.data = None])
                    /\ nsock' = nsock - 1
    /\ _cnt_pkts' = _cnt_pkts + 1
    /\ trace' = [trace EXCEPT ![c].sends = @ + 1, ![c].last = normalize(Top(c).cmd)]
    /\ UNCHANGED << config, _cnt_cmds, _cnt_rd_retries, _cnt_wr_retries, _max_rd_retries,
                    _max_wr_retries, tcp_cnt_cmds, result, arg, res >>

\* lines 378..384: sendto succeeds; the datagram reaches the device or is lost
SendOk(c) ==
    /\ ~Idle(c) /\ Top(c).fn = "cmd" /\ Top(c).pc = "send"
    /\ \E delivered \in BOOLEAN, ext \in ExtLevels :
         LET f == Top(c)
             h == DevHandle(dev, kind, f.cmd, ext)
         IN /\ dev' = IF delivered THEN h.dev ELSE dev
            /\ IF f.cmdtype = "read"
               THEN /\ stack' = WithTop(c, [f EXCEPT !.pc = "recv",
                                                     !.rsp = IF delivered THEN h.rsp ELSE None])
                    /\ nsock' = nsock
               ELSE /\ stack' = WithTop(c, [f EXCEPT !.pc = "validate", !.data = None])
                    /\ nsock' = nsock - 1
    /\ _cnt_pkts' = _cnt_pkts + 1
    /\ trace' = [trace EXCEPT ![c].sends = @ + 1, ![c].last = Top(c).cmd]
    /\ UNCHANGED << config, _cnt_cmds, _cnt_rd_retries, _cnt_wr_retries, _max_rd_retries,
                    _max_wr_retries, tcp_cnt_cmds, result, arg, res >>

\* lines 381..382: a response datagram arrives
RecvOk(c) ==
    /\ ~Idle(c) /\ Top(c).fn = "cmd" /\ Top(c).pc = "recv" /\ Top(c).rsp # None
    /\ stack' = WithTop(c, [Top(c) EXCEPT !.pc = "validate", !.data = Top(c).rsp, !.rsp = None])
    /\ _cnt_pkts' = _cnt_pkts + 1
    /\ nsock' = nsock - 1
    /\ trace' = [trace EXCEPT ![c].recvs = @ + 1]
    /\ UNCHANGED << config, _cnt_cmds, _cnt_rd_retries, _cnt_wr_retries, _max_rd_retries,
                    _max_wr_retries, tcp_cnt_cmds, dev, result, arg, res >>

\* line 381: no response within eioudp.timeout, recvfrom raises
RecvTimeout(c) ==
    /\ ~Idle(c) /\ Top(c).fn = "cmd" /\ Top(c).pc = "recv" /\ Top(c).rsp = None
    /\ Failed(c)

-----------------------------------------------------------------------------
(* eioudp.cmd, lines 396..423: write validation *)

\* the test of line 396 without the write_validate setting
ValidatesUnasked(f) == f.cmdtype = "verify"

\* line 396
Validates(f) == write_validate /\ f.cmdtype = "verify"

\* line 398: the write was to a value register
IsValueWrite(cmd) == InBytes(Take(cmd, 1), PortUpper)

\* line 401: the command that reads the direction register of the written port
DirCmd(cmd) == b(<<"!">>) \o lower(Take(cmd, 1))

\* the direction byte taken as the mask, not inverted
DirMaskPlain(dir) == dir

\* line 402: the mask made of the direction byte read
DirMask(dir) == BitXor(dir, 255)

\* the read-back command left in upper case
ReadBackUnlowered(cmd) == DropLast(cmd)

\* line 403: the command that reads the written register back
ReadBack(cmd) == lower(DropLast(cmd))

\* every read-back taken to agree
AgreesAlways(val, cmd, msk) == TRUE

\* line 409: the read-back agrees with the written byte on the mask
Agrees(val, cmd, msk) == BitAnd(Last(val), msk) = BitAnd(Last(cmd), msk)

\* lines 396..401, or line 423 when there is nothing to validate
Validate(c) ==
    /\ ~Idle(c) /\ Top(c).fn = "cmd" /\ Top(c).pc = "validate"
    /\ LET f == Top(c) IN
       stack' =
         IF ~Validates(f) THEN WithTop(c, [f EXCEPT !.pc = "return", !.retv = f.data])
         ELSE IF IsValueWrite(f.cmd)
              THEN WithCall(c, [f EXCEPT !.msk = 255, !.pc = "dirret"],
                               CmdFrame(DirCmd(f.cmd), NoRetries))
              ELSE WithTop(c, [f EXCEPT !.msk = 255, !.vcmd = ReadBack(f.cmd), !.tries = 0,
                                        !.pc = "vloop"])
    /\ UNCHANGED << config, counters, dev, nsock, result, trace, arg, res >>

\* lines 401..404: the direction read has returned
DirRet(c) ==
    /\ ~Idle(c) /\ Top(c).fn = "cmd" /\ Top(c).pc = "dirret"
    /\ LET f == Top(c) IN
       stack' = WithTop(c, [f EXCEPT !.msk = DirMask(Last(f.got)), !.dirv = Last(f.got),
                                     !.vcmd = ReadBack(f.cmd), !.tries = 0, !.pc = "vloop"])
    /\ UNCHANGED << config, counters, dev, nsock, result, trace, arg, res >>

\* line 406: read the register back
VLoop(c) ==
    /\ ~Idle(c) /\ Top(c).fn = "cmd" /\ Top(c).pc = "vloop"
    /\ stack' = WithCall(c, [Top(c) EXCEPT !.pc = "vcmp", !.rounds = @ + 1],
                            CmdFrame(Top(c).vcmd, NoRetries))
    /\ UNCHANGED << config, counters, dev, nsock, result, trace, arg, res >>

\* lines 407..409: compare under the mask
VCmp(c) ==
    /\ ~Idle(c) /\ Top(c).fn = "cmd" /\ Top(c).pc = "vcmp"
    /\ LET f == Top(c) IN
       stack' = WithTop(c, IF Agrees(f.got, f.cmd, f.msk)
                           THEN [f EXCEPT !.rb = Last(f.got), !.pc = "return", !.retv = f.data]
                           ELSE [f EXCEPT !.rb = Last(f.got), !.pc = "ropen"])
    /\ _cnt_cmds' = _cnt_cmds - 1
    /\ UNCHANGED << config, _cnt_pkts, _cnt_rd_retries, _cnt_wr_retries, _max_rd_retries,
                    _max_wr_retries, tcp_cnt_cmds, dev, nsock, result, trace, arg, res >>

\* lines 418..422: the frame after a resend, or an attempt at one
Retried(f) ==
    IF TriesExceeded(f.tries + 1, f.retries)
    THEN [f EXCEPT !.tries = @ + 1, !.resends = @ + 1, !.pc = "raise", !.exc = "TimeoutError",
                   !.at = "validation"]
    ELSE [f EXCEPT !.tries = @ + 1, !.resends = @ + 1, !.pc = "vloop"]

\* line 421: _max_wr_retries after a resend that left tries at t
MaxWrAfter(m, t, bound) == IF ~TriesExceeded(t, bound) /\ t > m THEN t ELSE m

\* the resend left out of the count of write retries
AfterResendUncounted(c) ==
    /\ _cnt_wr_retries' = _cnt_wr_retries
    /\ _max_wr_retries' = MaxWrAfter(_max_wr_retries, Top(c).tries + 1, Top(c).retries)
    /\ nsock' = nsock - 1

\* lines 418..422, after either outcome of the resend
AfterResend(c) ==
    /\ _cnt_wr_retries' = _cnt_wr_retries + 1
    /\ _max_wr_retries' = MaxWrAfter(_max_wr_retries, Top(c).tries + 1, Top(c).retries)
    /\ nsock' = nsock - 1

\* lines 413..415: the resend of the write succeeds; it reaches the device or is lost
ResendOk(c) ==
    /\ ~Idle(c) /\ Top(c).fn = "cmd" /\ Top(c).pc = "rsend"
    /\ \E delivered \in BOOLEAN :
         dev' = IF delivered THEN DevHandle(dev, kind, Top(c).cmd, 0).dev ELSE dev
    /\ _cnt_pkts' = _cnt_pkts + 1
    /\ trace' = [trace EXCEPT ![c].sends = @ + 1, ![c].last = Top(c).cmd]
    /\ stack' = WithTop(c, Retried(Top(c)))
    /\ AfterResend(c)
    /\ UNCHANGED << config, _cnt_cmds, _cnt_rd_retries, _max_rd_retries, tcp_cnt_cmds,
                    result, arg, res >>

\* the resend that raises counted as a packet
ResendFailCounted(c) ==
    /\ ~Idle(c) /\ Top(c).fn = "cmd" /\ Top(c).pc = "rsend"
    /\ stack' = WithTop(c, [Retried(Top(c)) EXCEPT !.rfails = @ + 1])
    /\ AfterResend(c)
    /\ _cnt_pkts' = _cnt_pkts + 1
    /\ UNCHANGED << config, _cnt_cmds, _cnt_rd_retries, _max_rd_retries,
                    tcp_cnt_cmds, dev, result, trace, arg, res >>

\* lines 416..417: the resend raises, and the exception is dropped
ResendFail(c) ==
    /\ ~Idle(c) /\ Top(c).fn = "cmd" /\ Top(c).pc = "rsend"
    /\ stack' = WithTop(c, [Retried(Top(c)) EXCEPT !.rfails = @ + 1])
    /\ AfterResend(c)
    /\ UNCHANGED << config, _cnt_cmds, _cnt_pkts, _cnt_rd_retries, _max_rd_retries,
                    tcp_cnt_cmds, dev, result, trace, arg, res >>

-----------------------------------------------------------------------------
(* Return and raise *)

\* line 66
GetCmd(s, port) == s \o lower(port)

\* line 75
SetCmd(s, port, v) == s \o upper(port) \o << v >>

\* no function catches anything
CatchesNothing(fn, exc) == FALSE

\* line 429: eioudp.mac catches TimeoutError, and nothing else catches anything
Catches(fn, exc) == fn = "mac" /\ exc = "TimeoutError"

\* a call returns: its frame is popped and its value handed to its caller
Return(c) ==
    /\ ~Idle(c) /\ Top(c).pc = "return"
    /\ LET f == Top(c)
           rest == SubSeq(stack[c], 1, Len(stack[c]) - 1)
       IN IF rest = << >>
          THEN /\ stack' = [stack EXCEPT ![c] = << >>]
               /\ result' = [result EXCEPT ![c] = [@ EXCEPT !.status = "return", !.val = f.retv,
                                                            !.exc = f.exc]]
               /\ trace' = [trace EXCEPT
                              ![c].wrote =
                                  IF f.fn = "_pset" /\ f.s = << >> THEN SetCmd(f.s, f.port, f.v) ELSE @,
                              ![c].pinset =
                                  IF f.fn = "__setitem__" THEN [io |-> f.io, tok |-> f.tok] ELSE @]
          ELSE /\ stack' = [stack EXCEPT ![c] = [rest EXCEPT ![Len(rest)].got = f.retv]]
               /\ UNCHANGED << result, trace >>
    /\ UNCHANGED << config, counters, dev, nsock, arg, res >>

\* a call raises: its frame is popped and the exception reaches its caller,
\* which handles it (eioudp.mac, line 429) or raises it in turn
Raise(c) ==
    /\ ~Idle(c) /\ Top(c).pc = "raise"
    /\ LET f == Top(c)
           rest == SubSeq(stack[c], 1, Len(stack[c]) - 1)
       IN IF rest = << >>
          THEN /\ stack' = [stack EXCEPT ![c] = << >>]
               /\ result' = [result EXCEPT ![c] = [@ EXCEPT !.status = f.exc]]
          ELSE /\ stack' = [stack EXCEPT ![c] =
                     [rest EXCEPT ![Len(rest)].exc = f.exc,
                                  ![Len(rest)].pc = IF Catches(rest[Len(rest)].fn, f.exc)
                                                    THEN "except" ELSE "raise"]]
               /\ result' = result
    /\ UNCHANGED << config, counters, dev, nsock, trace, arg, res >>

-----------------------------------------------------------------------------
(* eiobase.__port: _pget and _pset, lines 62..76 *)

\* the test made for the threshold register only
UnsupportedThreshold(s, k) == s = b(<<"#">>) /\ k # "IO24R"

\* lines 63 and 72: the register s does not exist on a device of kind k
Unsupported(s, k) == s # << >> /\ InBytes(s, b(<<"#", "$">>)) /\ k # "IO24R"

PortFrame(fn, port, s, v) == [Frame0 EXCEPT !.fn = fn, !.port = port, !.s = s, !.v = v]

\* lines 63..67
PgetStart(c) ==
    /\ ~Idle(c) /\ Top(c).fn = "_pget" /\ Top(c).pc = "start"
    /\ LET f == Top(c) IN
       stack' = IF Unsupported(f.s, kind)
                THEN WithTop(c, [f EXCEPT !.pc = "raise", !.exc = "AttributeError"])
                ELSE WithCall(c, [f EXCEPT !.pc = "ret"], CmdFrame(GetCmd(f.s, f.port), NoRetries))
    /\ UNCHANGED << config, counters, dev, nsock, result, trace, arg, res >>

\* line 68: the data is the last byte of the response
PgetRet(c) ==
    /\ ~Idle(c) /\ Top(c).fn = "_pget" /\ Top(c).pc = "ret"
    /\ stack' = WithTop(c, [Top(c) EXCEPT !.pc = "return", !.retv = Last(Top(c).got)])
    /\ UNCHANGED << config, counters, dev, nsock, result, trace, arg, res >>

\* lines 72..76; bytes((v,)) raises ValueError unless v is in range(256)
PsetStart(c) ==
    /\ ~Idle(c) /\ Top(c).fn = "_pset" /\ Top(c).pc = "start"
    /\ LET f == Top(c) IN
       stack' = IF Unsupported(f.s, kind)
                THEN WithTop(c, [f EXCEPT !.pc = "raise", !.exc = "AttributeError"])
                ELSE IF f.v \notin Byte
                THEN WithTop(c, [f EXCEPT !.pc = "raise", !.exc = "ValueError"])
                ELSE WithCall(c, [f EXCEPT !.pc = "ret"],
                                 CmdFrame(SetCmd(f.s, f.port, f.v), NoRetries))
    /\ UNCHANGED << config, counters, dev, nsock, result, trace, arg, res >>

\* line 76: _pset returns None
PsetRet(c) ==
    /\ ~Idle(c) /\ Top(c).fn = "_pset" /\ Top(c).pc = "ret"
    /\ stack' = WithTop(c, [Top(c) EXCEPT !.pc = "return", !.retv = None])
    /\ UNCHANGED << config, counters, dev, nsock, result, trace, arg, res >>

-----------------------------------------------------------------------------
(* eiobase.__io: pin access, lines 102..135 *)

\* the quotient and remainder of divmod taken the other way round
_iochkSwapped(k, io) ==
    IF io < 0 \/ io >= iolen(k)
    THEN [exc |-> "IndexError", prt |-> -1, bit |-> -1, msk |-> 0]
    ELSE [exc |-> "", prt |-> io % 8, bit |-> io \div 8, msk |-> Shl1(io \div 8)]

\* lines 114..118: "IndexError", or the tuple (prt, bit, msk)
_iochk(k, io) ==
    IF io < 0 \/ io >= iolen(k)
    THEN [exc |-> "IndexError", prt |-> -1, bit |-> -1, msk |-> 0]
    ELSE [exc |-> "", prt |-> io \div 8, bit |-> io % 8, msk |-> Shl1(io % 8)]

\* self.eio.ports[prt], as its letter
PortAt(k, prt) == << ports(k)[prt + 1] >>

\* the off values with a lower-case spelling among them
LOsAnyCase == { "i:0", "s:0", "s:L", "s:LO", "s:LOW", "s:OFF", "s:lo" }

\* lines 127..128; an int is written i:n and a str s:text
LOs == { "i:0", "s:0", "s:L", "s:LO", "s:LOW", "s:OFF" }
HIs == { "i:1", "s:1", "s:H", "s:HI", "s:HIGH", "s:ON" }

\* the mask written in the place of the byte read
PinApplyMaskOnly(val, msk, tok) ==
    IF tok \in LOs THEN BitXor(msk, 255)
    ELSE IF tok \in HIs THEN msk
    ELSE val

\* lines 133..134
PinApply(val, msk, tok) ==
    IF tok \in LOs THEN BitAnd(val, BitXor(msk, 255))
    ELSE IF tok \in HIs THEN BitOr(val, msk)
    ELSE val

PinFrame(fn, io, tok) == [Frame0 EXCEPT !.fn = fn, !.io = io, !.tok = tok]

\* lines 121..122
GetitemStart(c) ==
    /\ ~Idle(c) /\ Top(c).fn = "__getitem__" /\ Top(c).pc = "start"
    /\ LET f == Top(c)
           t == _iochk(kind, f.io)
       IN stack' = IF t.exc # ""
                   THEN WithTop(c, [f EXCEPT !.pc = "raise", !.exc = t.exc])
                   ELSE WithCall(c, [f EXCEPT !.pc = "ret", !.msk = t.msk],
                                    PortFrame("_pget", PortAt(kind, t.prt), << >>, 0))
    /\ UNCHANGED << config, counters, dev, nsock, result, trace, arg, res >>

\* line 124
GetitemRet(c) ==
    /\ ~Idle(c) /\ Top(c).fn = "__getitem__" /\ Top(c).pc = "ret"
    /\ stack' = WithTop(c, [Top(c) EXCEPT !.pc = "return",
                               !.retv = IF BitAnd(Top(c).got, Top(c).msk) # 0 THEN 1 ELSE 0])
    /\ UNCHANGED << config, counters, dev, nsock, result, trace, arg, res >>

\* lines 127..132
SetitemStart(c) ==
    /\ ~Idle(c) /\ Top(c).fn = "__setitem__" /\ Top(c).pc = "start"
    /\ LET f == Top(c)
           t == _iochk(kind, f.io)
       IN stack' = IF f.tok \notin LOs \cup HIs
                   THEN WithTop(c, [f EXCEPT !.pc = "raise", !.exc = "ValueError"])
                   ELSE IF t.exc # ""
                   THEN WithTop(c, [f EXCEPT !.pc = "raise", !.exc = t.exc])
                   ELSE WithCall(c, [f EXCEPT !.pc = "mod", !.msk = t.msk,
                                              !.port = PortAt(kind, t.prt)],
                                    PortFrame("_pget", PortAt(kind, t.prt), << >>, 0))
    /\ UNCHANGED << config, counters, dev, nsock, result, trace, arg, res >>

\* lines 133..135
SetitemMod(c) ==
    /\ ~Idle(c) /\ Top(c).fn = "__setitem__" /\ Top(c).pc = "mod"
    /\ LET f == Top(c) IN
       stack' = WithCall(c, [f EXCEPT !.pc = "ret", !.v = f.got],
                            PortFrame("_pset", f.port, << >>, PinApply(f.got, f.msk, f.tok)))
    /\ UNCHANGED << config, counters, dev, nsock, result, trace, arg, res >>

\* __setitem__ returns None
SetitemRet(c) ==
    /\ ~Idle(c) /\ Top(c).fn = "__setitem__" /\ Top(c).pc = "ret"
    /\ stack' = WithTop(c, [Top(c) EXCEPT !.pc = "return", !.retv = None])
    /\ UNCHANGED << config, counters, dev, nsock, result, trace, arg, res >>

-----------------------------------------------------------------------------
(* eioudp.mac, lines 425..430 *)

HexDigits == b(<<"0", "1", "2", "3", "4", "5", "6", "7", "8", "9", "a", "b", "c", "d", "e", "f">>)

\* bytes.hex(): two lower-case hexadecimal digits for each byte
hex(bs) ==
    [i \in 1..(2 * Len(bs)) |->
        IF i % 2 = 1 THEN HexDigits[(bs[(i + 1) \div 2] \div 16) + 1]
        ELSE HexDigits[(bs[i \div 2] % 16) + 1]]

\* rsp[4:10]
MacSlice(rsp) ==
    SubSeq(rsp, 5, IF Len(rsp) < 10 THEN Len(rsp) ELSE 10)

MacFrame(cmd, r) == [Frame0 EXCEPT !.fn = "mac", !.cmd = cmd, !.retries = r]

\* line 427
MacStart(c) ==
    /\ ~Idle(c) /\ Top(c).fn = "mac" /\ Top(c).pc = "start"
    /\ stack' = WithCall(c, [Top(c) EXCEPT !.pc = "ret"], CmdFrame(Top(c).cmd, Top(c).retries))
    /\ UNCHANGED << config, counters, dev, nsock, result, trace, arg, res >>

\* line 428
MacRet(c) ==
    /\ ~Idle(c) /\ Top(c).fn = "mac" /\ Top(c).pc = "ret"
    /\ stack' = WithTop(c, [Top(c) EXCEPT !.pc = "return",
                                          !.retv = upper(hex(MacSlice(Top(c).got)))])
    /\ UNCHANGED << config, counters, dev, nsock, result, trace, arg, res >>

\* lines 429..430
MacExcept(c) ==
    /\ ~Idle(c) /\ Top(c).fn = "mac" /\ Top(c).pc = "except"
    /\ stack' = WithTop(c, [Top(c) EXCEPT !.pc = "return", !.retv = None])
    /\ UNCHANGED << config, counters, dev, nsock, result, trace, arg, res >>

-----------------------------------------------------------------------------
(* eiotcp.cmd, lines 594..617 *)

TcpFrame(cmd) == [Frame0 EXCEPT !.fn = "tcp", !.cmd = cmd]

\* lines 594..599: eiotcp._cnt_cmds after the classification of a command of type t
TcpCmdsAfterCheck(n, t) == IF t = "None" THEN n ELSE n + 1

\* lines 594..600
TcpStart(c) ==
    /\ ~Idle(c) /\ Top(c).fn = "tcp" /\ Top(c).pc = "start"
    /\ LET f == Top(c)
           t == _cmdcheck(f.cmd)
       IN /\ tcp_cnt_cmds' = TcpCmdsAfterCheck(tcp_cnt_cmds, t)
          /\ stack' = WithTop(c,
                IF t = "None"
                THEN [f EXCEPT !.pc = "raise", !.exc = "ValueError"]
                ELSE [f EXCEPT !.retries = retries, !.cmdtype = t, !.tries = 0, !.pc = "open"])
    /\ trace' = [trace EXCEPT ![c].checks = @ + 1]
    /\ UNCHANGED << config, _cnt_cmds, _cnt_pkts, _cnt_rd_retries, _cnt_wr_retries,
                    _max_rd_retries, _max_wr_retries, dev, nsock, result, arg, res >>

\* line 602: with socket(AF_INET, SOCK_STREAM) as mySocket
TcpOpen(c) ==
    /\ ~Idle(c) /\ Top(c).fn = "tcp" /\ Top(c).pc = "open"
    /\ stack' = WithTop(c, [Top(c) EXCEPT !.pc = "connect", !.att = @ + 1])
    /\ nsock' = nsock + 1
    /\ trace' = [trace EXCEPT ![c].opens = @ + 1]
    /\ UNCHANGED << config, counters, dev, result, arg, res >>

\* line 604: connect succeeds
TcpConnect(c) ==
    /\ ~Idle(c) /\ Top(c).fn = "tcp" /\ Top(c).pc = "connect"
    /\ stack' = WithTop(c, [Top(c) EXCEPT !.pc = "send"])
    /\ UNCHANGED << config, counters, dev, nsock, result, trace, arg, res >>

\* lines 605..609: sendall succeeds and the device receives the command
TcpSend(c) ==
    /\ ~Idle(c) /\ Top(c).fn = "tcp" /\ Top(c).pc = "send"
    /\ \E ext \in ExtLevels :
         LET f == Top(c)
             h == DevHandle(dev, kind, f.cmd, ext)
         IN /\ dev' = h.dev
            /\ IF f.cmdtype = "read"
               THEN /\ stack' = WithTop(c, [f EXCEPT !.pc = "recv", !.rsp = h.rsp])
                    /\ nsock' = nsock
               ELSE /\ stack' = WithTop(c, [f EXCEPT !.pc = "return", !.retv = None])
                    /\ nsock' = nsock - 1
    /\ trace' = [trace EXCEPT ![c].sends = @ + 1, ![c].last = Top(c).cmd]
    /\ UNCHANGED << config, counters, result, arg, res >>

\* line 607: (data, _) = mySocket.recv(...) unpacks the bytes received, which
\* takes exactly two of them and leaves the first, an int, in data
TcpUnpacks(rsp) == rsp # None /\ Len(rsp) = 2

\* an int in a place where bytes are expected, told apart from every bytes
\* value as None is
IntValue(n) == << -2, n >>

\* lines 607 and 617: recv returns and the unpacking succeeds
TcpRecv(c) ==
    /\ ~Idle(c) /\ Top(c).fn = "tcp" /\ Top(c).pc = "recv" /\ TcpUnpacks(Top(c).rsp)
    /\ stack' = WithTop(c, [Top(c) EXCEPT !.pc = "return", !.retv = IntValue(Top(c).rsp[1]),
                                          !.rsp = None])
    /\ nsock' = nsock - 1
    /\ trace' = [trace EXCEPT ![c].recvs = @ + 1]
    /\ UNCHANGED << config, counters, dev, result, arg, res >>

\* lines 607 and 610..613: recv returns bytes that are not two, the unpacking
\* raises ValueError, and the handler takes it for a failed attempt
TcpUnpackFail(c) ==
    /\ ~Idle(c) /\ Top(c).fn = "tcp" /\ Top(c).pc = "recv"
    /\ Top(c).rsp # None /\ ~TcpUnpacks(Top(c).rsp)
    /\ LET f == Top(c) IN
       stack' = WithTop(c,
          IF TriesExceeded(f.tries + 1, f.retries)
          THEN [f EXCEPT !.tries = @ + 1, !.rsp = None, !.pc = "raise", !.exc = "TimeoutError",
                         !.at = "base"]
          ELSE [f EXCEPT !.tries = @ + 1, !.rsp = None, !.pc = "open"])
    /\ nsock' = nsock - 1
    /\ trace' = [trace EXCEPT ![c].recvs = @ + 1]
    /\ UNCHANGED << config, counters, dev, result, arg, res >>

\* lines 610..613: connect, sendall or recv raises
TcpFail(c) ==
    /\ ~Idle(c) /\ Top(c).fn = "tcp" /\ Top(c).pc \in { "connect", "send", "recv" }
    /\ LET f == Top(c) IN
       stack' = WithTop(c,
          IF TriesExceeded(f.tries + 1, f.retries)
          THEN [f EXCEPT !.tries = @ + 1, !.rsp = None, !.pc = "raise", !.exc = "TimeoutError",
                         !.at = "base"]
          ELSE [f EXCEPT !.tries = @ + 1, !.rsp = None, !.pc = "open"])
    /\ nsock' = nsock - 1
    /\ UNCHANGED << config, counters, dev, result, trace, arg, res >>

-----------------------------------------------------------------------------
(* addrtuple, lines 473..488 *)

\* Python objects given to addrtuple, by type t: a str has the sequence s of
\* its characters, an int its value n, a tuple the sequence xs of its elements
PyStr(cs) == [t |-> "str", s |-> cs, n |-> 0, xs |-> << >>]
PyInt(n) == [t |-> "int", s |-> << >>, n |-> n, xs |-> << >>]
PyTup(xs) == [t |-> "tuple", s |-> << >>, n |-> 0, xs |-> xs]
NoneObj == [t |-> "None", s |-> << >>, n |-> 0, xs |-> << >>]

\* bool(x), as `not addr` and `not port` use it
Truthy(x) ==
    IF x.t = "None" THEN FALSE
    ELSE IF x.t = "int" THEN x.n # 0
    ELSE IF x.t = "str" THEN x.s # << >>
    ELSE x.xs # << >>

\* s.split(sep) for a one-character sep: the pieces between the separators
RECURSIVE split(_, _)
split(s, sep) ==
    IF \A i \in 1..Len(s) : s[i] # sep THEN << s >>
    ELSE LET i == CHOOSE j \in 1..Len(s) : s[j] = sep /\ \A k \in 1..(j - 1) : s[k] # sep
         IN  << SubSeq(s, 1, i - 1) >> \o split(SubSeq(s, i + 1, Len(s)), sep)

\* str(n) for an int n >= 0: its decimal digits
RECURSIVE DecStr(_)
DecStr(n) ==
    LET d == << Printable[ord("0") - 31 + (n % 10)] >>
    IN IF n < 10 THEN d ELSE DecStr(n \div 10) \o d

\* str(x) for an element of an address tuple
str(x) == IF x.t = "int" THEN DecStr(x.n) ELSE x.s

\* sep.join(parts)
RECURSIVE join(_, _)
join(sep, parts) ==
    IF parts = << >> THEN << >>
    ELSE IF Len(parts) = 1 THEN parts[1]
    ELSE parts[1] \o sep \o join(sep, Tail(parts))

IsDigit(ch) == ord(ch) \in ord("0")..ord("9")

\* int(s) for a str of digits; any other str of the characters used here
\* raises ValueError, written -1
RECURSIVE int(_)
int(s) ==
    IF s = << >> \/ \E i \in 1..Len(s) : ~IsDigit(s[i]) THEN -1
    ELSE IF Len(s) = 1 THEN ord(s[1]) - ord("0")
    ELSE 10 * int(DropLast(s)) + (ord(Last(s)) - ord("0"))

\* line 12 of the configuration names the default address; lines 483..484
DEFAULTHOST == <<"1", "0", ".", "1", "0", ".", "1", "0", ".", "1", "0">>
DEFAULTPORT == 2424

\* lines 476..480: addr and port as the shape of obj gives them
AddrParts(obj) ==
    IF obj.t = "tuple" /\ Len(obj.xs) = 2 THEN [addr |-> obj.xs[1], port |-> obj.xs[2]]
    ELSE IF obj.t = "tuple" /\ Len(obj.xs) = 4 THEN [addr |-> obj, port |-> NoneObj]
    ELSE IF obj.t = "tuple" /\ Len(obj.xs) = 5
    THEN [addr |-> PyTup(SubSeq(obj.xs, 1, 4)), port |-> obj.xs[5]]
    ELSE IF obj.t = "str"
    THEN LET parts == split(obj.s \o <<":">>, ":")
         IN  [addr |-> PyStr(parts[1]), port |-> PyStr(parts[2])]
    ELSE [addr |-> NoneObj, port |-> NoneObj]

\* line 482
JoinAddr(a) ==
    IF a.t = "tuple" THEN PyStr(join(<<".">>, [i \in 1..Len(a.xs) |-> str(a.xs[i])])) ELSE a

\* line 483
AddrOrDefault(a) == IF ~Truthy(a) THEN PyStr(DEFAULTHOST) ELSE a

\* the default port given for a missing port only, not for an empty one
PortOrDefaultNone(q) == IF q.t = "None" THEN PyInt(DEFAULTPORT) ELSE q

\* line 484
PortOrDefault(q) == IF ~Truthy(q) THEN PyInt(DEFAULTPORT) ELSE q

\* addrtuple(obj): the pair (addr, port), or ValueError raised by int(port)
addrtuple(obj) ==
    LET parts == AddrParts(obj)
        addr == AddrOrDefault(JoinAddr(parts.addr))
        port == PortOrDefault(parts.port)
    IN IF port.t = "str"
       THEN IF int(port.s) = -1
            THEN [exc |-> "ValueError", addr |-> NoneObj, port |-> NoneObj]
            ELSE [exc |-> "", addr |-> addr, port |-> PyInt(int(port.s))]
       ELSE [exc |-> "", addr |-> addr, port |-> port]

-----------------------------------------------------------------------------
(* The callers *)

\* the ports a caller uses through the port API
ApiPorts == { b(<<"A">>) }
\* the five register properties: val, dir, pup, thr, sch (lines 79..83)
ApiSel == { << >>, b(<<"!">>), b(<<"@">>), b(<<"#">>), b(<<"$">>) }
\* the bytes a caller writes to a register
WriteVals(s) ==
    IF s = << >> THEN { 42, 213 }
    ELSE IF s = b(<<"!">>) THEN { PORTDIROUTPUT }
    ELSE { 0 }
\* the pin indices and values a caller uses
PinIdx == { -1, 3, 24, 72 }
PinIdxSet == { -1, 3, 72 }
PinToks == { "i:1", "s:LO", "s:lo" }
\* the commands a caller hands to eioudp.cmd and eiotcp.cmd
RawCmds ==
    { b(<<"I", "O", "2", "4">>), b(<<"'", "@">>), b(<<"A", "*">>), b(<<"!", "A">>) \o << 15 >>,
      b(<<"a">>), << >>, b(<<"_", "a">>), b(<<"a", "*">>), b(<<"'", "H">>) \o << 1 >> }
RetryArgs == { NoRetries } \cup 0..MaxRetries

\* one command of each kind that _cmdcheck knows: identify, register reads,
\* EEPROM word read / write / erase / write disable / write enable, EEPROM byte
\* read / write, reset, the SPI commands, and two register writes
KindCmds ==
    { b(<<"I", "O", "2", "4">>), b(<<"a">>), b(<<"!", "a">>),
      b(<<"'", "R">>) \o << 6, 0, 0 >>, b(<<"'", "W">>) \o << 6, 1, 2 >>,
      b(<<"'", "E">>) \o << 6, 170, 85 >>, b(<<"'", "0">>) \o << 0, 170, 85 >>,
      b(<<"'", "1">>) \o << 0, 170, 85 >>,
      b(<<"'", "r">>) \o << 6, 0 >>, b(<<"'", "w">>) \o << 6, 0, 1 >>,
      b(<<"'", "@">>), b(<<"S", "1", "A">>), b(<<"S", "0", "A">>), b(<<"S", "A">>) \o << 7 >>,
      b(<<"A", "*">>), b(<<"!", "A">>) \o << 0 >> }

\* the identify command of each device class's mac property (lines 201, 238, 278)
MacCmd(k) == IF k = "IO72T" THEN b(<<"'", "I", "O", "7", "2">>) ELSE b(<<"I", "O", "2", "4">>)

StatsSum ==
    _cnt_cmds + _cnt_pkts + _cnt_rd_retries + _cnt_wr_retries + tcp_cnt_cmds

\* a caller starts a call while the statistics are under the bound
CanCall(c) == Idle(c) /\ StatsSum < MaxStats

Begin(c, f) ==
    /\ CanCall(c)
    /\ stack' = [stack EXCEPT ![c] = << f >>]
    /\ result' = [result EXCEPT ![c] = [Result0 EXCEPT !.fn = f.fn, !.s = f.s, !.port = f.port]]
    /\ trace' = [trace EXCEPT ![c] = [Trace0 EXCEPT !.stats0 = counters,
                                        !.wrote = IF f.fn = "_pget" THEN trace[c].wrote ELSE << >>,
                                        !.pinset = IF f.fn = "__getitem__" THEN trace[c].pinset
                                                   ELSE NoPin]]
    /\ UNCHANGED << config, counters, dev, nsock, arg, res >>

\* x = dev.porta.val and the like
CallPget(c) == \E p \in ApiPorts, s \in ApiSel : Begin(c, PortFrame("_pget", p, s, 0))

\* dev.porta.val = v and the like
CallPset(c) ==
    \E p \in ApiPorts, s \in ApiSel : \E v \in WriteVals(s) : Begin(c, PortFrame("_pset", p, s, v))

\* x = dev.io[i]
CallGetitem(c) == \E io \in PinIdx : Begin(c, PinFrame("__getitem__", io, ""))

\* dev.io[i] = v
CallSetitem(c) == \E io \in PinIdxSet, tok \in PinToks : Begin(c, PinFrame("__setitem__", io, tok))

\* dev.mac
CallMac(c) == \E r \in RetryArgs : Begin(c, MacFrame(MacCmd(kind), r))

\* eioudp.cmd(cmd, addr, retries)
CallCmd(c) == \E cmd \in RawCmds, r \in RetryArgs : Begin(c, CmdFrame(cmd, r))

\* eioudp.cmd(cmd, addr) with a command of each kind
CallKind(c) == \E cmd \in KindCmds : Begin(c, CmdFrame(cmd, NoRetries))

\* eiotcp.cmd(cmd, addr)
CallTcp(c) == \E cmd \in RawCmds : Begin(c, TcpFrame(cmd))

\* eioudp.stats_clear(), lines 335..340
stats_clear ==
    /\ \A c \in Callers : Idle(c)
    /\ _cnt_cmds' = 0 /\ _cnt_pkts' = 0 /\ _cnt_rd_retries' = 0
    /\ _cnt_wr_retries' = 0 /\ _max_rd_retries' = 0 /\ _max_wr_retries' = 0
    /\ UNCHANGED << config, tcp_cnt_cmds, dev, nsock, stack, result, trace, arg, res >>

\* eiotcp.stats_clear(), line 569
tcp_stats_clear ==
    /\ \A c \in Callers : Idle(c)
    /\ tcp_cnt_cmds' = 0
    /\ UNCHANGED << config, _cnt_cmds, _cnt_pkts, _cnt_rd_retries, _cnt_wr_retries,
                    _max_rd_retries, _max_wr_retries, dev, nsock, stack, result, trace, arg, res >>

-----------------------------------------------------------------------------
(* The specification of a single caller *)

\* the state after the import of the module and the construction of a device
\* object: the class attributes as a caller may have set them, no call in progress
InitDriver ==
    /\ kind \in Kinds
    /\ retries \in 0..MaxRetries
    /\ write_validate \in BOOLEAN
    /\ _cnt_cmds = 0 /\ _cnt_pkts = 0 /\ _cnt_rd_retries = 0
    /\ _cnt_wr_retries = 0 /\ _max_rd_retries = 0 /\ _max_wr_retries = 0
    /\ tcp_cnt_cmds = 0
    /\ nsock = 0
    /\ stack = [c \in Callers |-> << >>]
    /\ result = [c \in Callers |-> Result0]
    /\ trace = [c \in Callers |-> Trace0]

\* the device has just been powered on
Init == InitDriver /\ dev = DevPowerOn(kind) /\ arg = << >> /\ res = << >>

\* one step of caller c inside eioudp.cmd, or a return or raise of any call
StepCmd(c) ==
    \/ CmdStart(c) \/ SockOpen(c) \/ SendFail(c) \/ SendOk(c) \/ RecvOk(c) \/ RecvTimeout(c)
    \/ Validate(c) \/ DirRet(c) \/ VLoop(c) \/ VCmp(c) \/ ResendOk(c) \/ ResendFail(c)
    \/ Return(c) \/ Raise(c)

StepPort(c) == PgetStart(c) \/ PgetRet(c) \/ PsetStart(c) \/ PsetRet(c)

StepPin(c) ==
    GetitemStart(c) \/ GetitemRet(c) \/ SetitemStart(c) \/ SetitemMod(c) \/ SetitemRet(c)

StepMac(c) == MacStart(c) \/ MacRet(c) \/ MacExcept(c)

StepTcp(c) ==
    \/ TcpStart(c) \/ TcpOpen(c) \/ TcpConnect(c) \/ TcpSend(c) \/ TcpRecv(c)
    \/ TcpUnpackFail(c) \/ TcpFail(c)

\* the part of eioudp.cmd that a Read command runs
StepRead(c) ==
    \/ CmdStart(c) \/ SockOpen(c) \/ SendFail(c) \/ SendOk(c) \/ RecvOk(c) \/ RecvTimeout(c)
    \/ Validate(c) \/ Return(c) \/ Raise(c)

\* the remote device is an IO24T
InitCmd == Init /\ kind = "IO24T"

\* a single caller of the command drivers eioudp.cmd and eiotcp.cmd
Next ==
    \/ CallCmd(1) \/ CallTcp(1)
    \/ StepCmd(1) \/ StepTcp(1)
    \/ stats_clear
    \/ tcp_stats_clear

Spec == InitCmd /\ [][Next]_vars

\* a single caller of eioudp.cmd with commands of every kind
NextKinds ==
    \/ CallKind(1)
    \/ StepCmd(1)
    \/ stats_clear

SpecKinds == InitCmd /\ [][NextKinds]_vars

\* a single caller of eioudp.cmd whose call, once begun, keeps running: every
\* statement of the call completes, and sendto and recvfrom return or raise
\* within eioudp.timeout (line 376)
NextLive ==
    \/ CallCmd(1)
    \/ StepCmd(1)

SpecLive == InitCmd /\ [][NextLive]_vars /\ WF_vars(StepCmd(1))

\* a single caller of the mac property of a device object of any kind
NextMac ==
    \/ CallMac(1)
    \/ StepRead(1) \/ StepMac(1)
    \/ stats_clear

SpecMac == Init /\ [][NextMac]_vars

\* a single caller of the port properties of a device object
NextPort ==
    \/ CallPget(1) \/ CallPset(1)
    \/ StepCmd(1) \/ StepPort(1)
    \/ stats_clear

SpecPort == Init /\ [][NextPort]_vars

\* a single caller of the pin view dev.io of a device object
NextPin ==
    \/ CallGetitem(1) \/ CallSetitem(1)
    \/ StepCmd(1) \/ StepPort(1) \/ StepPin(1)
    \/ stats_clear

\* the caller has made all the lines of the device outputs; the device has
\* 24 pins (IO24T, as has the IO24R) or 72 (IO72T)
InitPin ==
    /\ InitDriver /\ kind \in { "IO24T", "IO72T" }
    /\ dev = DevAllOut(kind) /\ arg = << >> /\ res = << >>

SpecPin == InitPin /\ [][NextPin]_vars

\* the pins of port A that a caller reads and sets one at a time, and the
\* values it sets them to
BitPins == { 3, 5 }
BitToks == { "i:1", "s:LO" }

\* x = dev.io[i] and dev.io[i] = v on those pins
CallBit(c) ==
    \/ \E io \in BitPins : Begin(c, PinFrame("__getitem__", io, ""))
    \/ \E io \in BitPins, tok \in BitToks : Begin(c, PinFrame("__setitem__", io, tok))

\* every line of the device is an output, and earlier writes have left the
\* pattern 10100101 in the latch of every port
DevLatched(k) ==
    [r \in DevRegs(k) |-> IF r[1] = ord("!") THEN PORTDIROUTPUT
                          ELSE IF r[1] = ord("_") THEN 165 ELSE 0]

InitBit ==
    /\ InitDriver /\ kind = "IO24T"
    /\ dev = DevLatched(kind) /\ arg = << >> /\ res = << >>

\* a single caller that reads and sets single pins of port A
NextBit ==
    \/ CallBit(1)
    \/ StepCmd(1) \/ StepPort(1) \/ StepPin(1)
    \/ stats_clear

SpecBit == InitBit /\ [][NextBit]_vars

\* two threads of one program, each of which sets one pin of port A once:
\* caller 1 switches pin 3 on and caller 2 switches pin 5 off.  A step is one
\* statement of one thread, and the threads share the class attributes of
\* eioudp and the device; write validation is enabled and eioudp.retries is 0.
RacePin(c) == IF c = 1 THEN PinFrame("__setitem__", 3, "i:1") ELSE PinFrame("__setitem__", 5, "s:LO")

CallRace(c) == result[c].fn = "" /\ Begin(c, RacePin(c))

InitRace == InitBit /\ write_validate /\ retries = 0

NextRace ==
    \E c \in Callers :
       \/ CallRace(c)
       \/ StepCmd(c) \/ StepPort(c)
       \/ SetitemStart(c) \/ SetitemMod(c) \/ SetitemRet(c)

SpecRace == InitRace /\ [][NextRace]_vars

-----------------------------------------------------------------------------
(* The pure functions, applied to an argument arg with the result in res *)

Elems(bs) == { bs[i] : i \in 1..Len(bs) }

\* commands that miss a rule of _cmdcheck by one byte
NearCmds ==
    { b(<<"I", "O", "2", "5">>), b(<<"'", "R">>) \o << 6, 0 >>, b(<<"'", "r">>) \o << 6, 0, 0 >>,
      b(<<"'", "@">>) \o << 0 >>, b(<<"S", "2", "A">>), b(<<"S", "B">>) \o << 7 >>,
      b(<<"j">>), b(<<"!", "J">>) \o << 1 >>, b(<<"A">>) \o << 1, 2 >> }

\* the commands classified: every selector byte, or none, before a port letter
\* of either case, alone or with a payload byte, and the commands of RawCmds,
\* KindCmds and NearCmds
ClassifyArgs ==
    LET sels == { << >> } \cup { << x >> : x \in Elems(RegSel) }
    IN  { s \o << l >> : s \in sels, l \in Elems(PortAny) }
        \cup { s \o << l, v >> : s \in sels, l \in Elems(PortAny), v \in Byte }
        \cup RawCmds \cup KindCmds \cup NearCmds

InitClassify ==
    /\ InitDriver /\ kind = "IO24T" /\ retries = 0 /\ write_validate
    /\ dev = DevPowerOn(kind)
    /\ arg \in ClassifyArgs
    /\ res = << >>

\* res = _cmdcheck(arg)
Classify ==
    /\ res = << >>
    /\ res' = << _cmdcheck(arg) >>
    /\ UNCHANGED << config, counters, dev, nsock, stack, result, trace, arg >>

SpecClassify == InitClassify /\ [][Classify]_vars

\* the indexes checked reach PinPad beyond the pins of the largest device
PinPad == 2
IochkArgs == (0 - PinPad)..(iolen("IO72T") + PinPad)

InitIochk ==
    /\ InitDriver
    /\ dev = DevPowerOn(kind)
    /\ arg \in { << io >> : io \in IochkArgs }
    /\ res = << >>

\* res = dev.io._iochk(arg)
Iochk ==
    /\ res = << >>
    /\ res' = << _iochk(kind, arg[1]) >>
    /\ UNCHANGED << config, counters, dev, nsock, stack, result, trace, arg >>

SpecIochk == InitIochk /\ [][Iochk]_vars

\* the strings given to addrtuple have up to MaxAddrLen characters
MaxAddrLen == 4
AddrChars == { "h", "1", "0", ":" }
Octets == { 0, 10, 255 }

RECURSIVE StrsUpTo(_)
StrsUpTo(n) ==
    IF n = 0 THEN { << >> }
    ELSE LET shorter == StrsUpTo(n - 1)
         IN  shorter \cup { cs \o << ch >> : cs \in { x \in shorter : Len(x) = n - 1 }, ch \in AddrChars }

\* the addresses given to addrtuple: strings, pairs, and tuples of 4 octets
\* without or with a port
AddrArgs ==
    LET hosts == { PyStr(<<"h">>), PyStr(<< >>), PyTup(<< PyInt(10), PyInt(0), PyInt(0), PyInt(255) >>) }
        prts  == { PyInt(8000), PyInt(0), PyStr(<<"8", "0">>), PyStr(<<"h">>), NoneObj }
        quads == { << PyInt(o1), PyInt(o2), PyInt(o3), PyInt(o4) >> : o1 \in Octets, o2 \in Octets,
                                                             o3 \in Octets, o4 \in Octets }
    IN  { PyStr(cs) : cs \in StrsUpTo(MaxAddrLen) }
        \cup { PyTup(<< h, q >>) : h \in hosts, q \in prts }
        \cup { PyTup(q) : q \in quads }
        \cup { PyTup(q \o << pt >>) : q \in quads, pt \in { PyInt(8000), PyInt(0) } }

InitAddr ==
    /\ InitDriver /\ kind = "IO24T" /\ retries = 0 /\ write_validate
    /\ dev = DevPowerOn(kind)
    /\ arg \in AddrArgs
    /\ res = << >>

\* res = addrtuple(arg)
Addrtuple ==
    /\ res = << >>
    /\ res' = << addrtuple(arg) >>
    /\ UNCHANGED << config, counters, dev, nsock, stack, result, trace, arg >>

SpecAddr == InitAddr /\ [][Addrtuple]_vars

-----------------------------------------------------------------------------
(* Properties of eioudp.cmd and eiotcp.cmd, checked under Spec *)

\* the frames of caller 1, innermost last
Frames == { stack[1][i] : i \in 1..Depth(1) }

\* bit i of byte x
Bit(x, i) == (x \div (2 ^ i)) % 2

\* bytes x and y are equal at every bit position where byte dir has a 0
AgreeOnOutputs(x, y, dir) == \A i \in 0..7 : Bit(dir, i) = 0 => Bit(x, i) = Bit(y, i)

\* C1: a call of eioudp.cmd whose exchanges all fail makes no more than R+1 of
\* them, R being its retry bound; when its base loop raises TimeoutError it
\* has made exactly R+1 exchange attempts and _cnt_rd_retries (ttl_rd_retries)
\* is R+1 above what it was when the call began.
C1_RetryExhaustion ==
    \A f \in Frames : f.fn = "cmd" =>
       /\ f.pc \in { "open", "send", "recv" } =>
             /\ f.tries <= f.retries
             /\ f.att = f.tries + (IF f.pc = "open" THEN 0 ELSE 1)
             /\ _cnt_rd_retries - f.rd0 = f.tries
       /\ f.at = "base" =>
             /\ f.pc = "raise" /\ f.exc = "TimeoutError"
             /\ f.att = f.retries + 1
             /\ _cnt_rd_retries - f.rd0 = f.retries + 1

\* a command given with retry bound 1 has failed twice and raises TimeoutError
C1_Witness ==
    /\ Depth(1) = 1
    /\ Top(1).fn = "cmd" /\ Top(1).pc = "raise" /\ Top(1).at = "base"
    /\ Top(1).retries = 1 /\ Top(1).att = 2
    /\ retries = 0

\* C2: with write_validate on, a WriteVerify command returns only after a
\* read-back whose last byte equals the written byte on every bit of the mask,
\* and is resent only after one that differs on a bit of the mask.  For a
\* write to a value register the mask has the bits that are 0 in the direction
\* byte, which was read once and is the direction register of that port; for
\* any other register the mask has every bit.
C2_MaskedValidation ==
    \A f \in Frames : (f.fn = "cmd" /\ f.cmdtype = "verify" /\ write_validate) =>
       LET value == Len(f.cmd) = 2
           dir == IF value THEN f.dirv ELSE 0
       IN /\ f.pc = "return" =>
                /\ f.rb \in Byte
                /\ AgreeOnOutputs(f.rb, Last(f.cmd), dir)
                /\ f.rounds = f.resends + 1
          /\ f.pc \in { "ropen", "rsend" } => ~AgreeOnOutputs(f.rb, Last(f.cmd), dir)
          /\ f.pc \in { "vloop", "vcmp", "ropen", "rsend", "return" } =>
                IF value
                THEN f.dirv = dev[<< ord("!"), lower(f.cmd)[1] >>]
                ELSE f.dirv = -1

\* a value write returns although the byte read back is not the byte written:
\* the low four lines of the port are inputs
C2_Witness ==
    /\ Depth(1) = 1 /\ write_validate
    /\ Top(1).fn = "cmd" /\ Top(1).pc = "return"
    /\ Len(Top(1).cmd) = 2 /\ Top(1).cmdtype = "verify"
    /\ Top(1).dirv = 15
    /\ Top(1).rb # Last(Top(1).cmd)

\* C4: in the validation loop of eioudp.cmd every read-compare round that
\* ends in a mismatch is followed by one resend of the write, whether the
\* resend succeeds or raises, and one increment of _cnt_wr_retries; the loop
\* raises TimeoutError after exactly R+1 rounds, R being the retry bound.
C4_ValidationExhaustion ==
    \A f \in Frames : f.fn = "cmd" =>
       /\ f.pc \in { "vloop", "vcmp", "ropen", "rsend" } =>
             /\ f.tries <= f.retries
             /\ f.resends = f.tries
             /\ f.rounds = f.tries + (IF f.pc = "vloop" THEN 0 ELSE 1)
             /\ _cnt_wr_retries - f.wr0 = f.tries
       /\ f.at = "validation" =>
             /\ f.pc = "raise" /\ f.exc = "TimeoutError"
             /\ f.rounds = f.retries + 1
             /\ f.resends = f.retries + 1
             /\ _cnt_wr_retries - f.wr0 = f.retries + 1

\* a write with retry bound 1 raises TimeoutError after two rounds, and one of
\* its two resends raised
C4_Witness ==
    /\ Depth(1) = 1
    /\ Top(1).fn = "cmd" /\ Top(1).pc = "raise" /\ Top(1).at = "validation"
    /\ Top(1).retries = 1 /\ Top(1).rounds = 2
    /\ Top(1).rfails = 1

\* C5: a call of eioudp.cmd or eiotcp.cmd with a command that _cmdcheck
\* rejects raises ValueError with no socket opened, no packet sent, no attempt
\* made and every statistics counter as it was when the call began.
C5_InvalidRejected ==
    /\ \A f \in Frames : (f.fn \in { "cmd", "tcp" } /\ _cmdcheck(f.cmd) = "None") =>
          /\ f.pc \in { "start", "raise" }
          /\ f.pc = "raise" => f.exc = "ValueError"
          /\ f.att = 0 /\ f.tries = 0
          /\ trace[1].opens = 0 /\ trace[1].sends = 0 /\ nsock = 0
          /\ counters = trace[1].stats0
    /\ result[1].status = "ValueError" => trace[1].opens = 0 /\ trace[1].sends = 0

\* eioudp.cmd raises ValueError for the empty command while the count of an
\* earlier command of eiotcp stands
C5_Witness ==
    /\ Depth(1) = 1
    /\ Top(1).fn = "cmd" /\ Top(1).pc = "raise" /\ Top(1).exc = "ValueError"
    /\ Top(1).cmd = << >>
    /\ tcp_cnt_cmds = 1

-----------------------------------------------------------------------------
(* Properties of the port accessors, checked under SpecPort *)

\* C3: when a value read of a port returns, write_validate is on, the port's
\* direction register is all-output, and the call before the reads was a
\* value write of V to that port that returned normally, the read returns V.
C3_RoundTrip ==
    LET r == result[1]
        w == trace[1].wrote
    IN  ( /\ r.fn = "_pget" /\ r.s = << >> /\ r.status = "return"
          /\ write_validate
          /\ w # << >> /\ Take(w, 1) = upper(r.port)
          /\ dev[<< ord("!"), lower(r.port)[1] >>] = PORTDIROUTPUT )
        => r.val = Last(w)

\* port A is all-output, 42 was written to it, and a read that had to repeat
\* its exchange has returned 42
C3_Witness ==
    /\ result[1].fn = "_pget" /\ result[1].s = << >> /\ result[1].status = "return"
    /\ write_validate
    /\ trace[1].wrote = b(<<"A", "*">>)
    /\ dev[<< ord("!"), ord("a") >>] = PORTDIROUTPUT
    /\ result[1].val = 42
    /\ _cnt_rd_retries - trace[1].stats0[3] = 1

\* C6: on an IO24T or IO72T a get or set of the threshold (#) or schmitt ($)
\* register of a port raises AttributeError with no command classified, no
\* socket opened and no packet sent, and no datagram that starts with # or $
\* leaves through the port accessors; on an IO24R these accessors do not
\* raise AttributeError.
C6_Gating ==
    LET gated == { b(<<"#">>), b(<<"$">>) } IN
    /\ \A f \in Frames : (f.fn \in { "_pget", "_pset" } /\ f.s \in gated) =>
          IF kind \in { "IO24T", "IO72T" }
          THEN /\ Depth(1) = 1
               /\ f.pc \in { "start", "raise" }
               /\ f.pc = "raise" => f.exc = "AttributeError"
               /\ trace[1].checks = 0 /\ trace[1].opens = 0 /\ trace[1].sends = 0
               /\ counters = trace[1].stats0
          ELSE f.exc # "AttributeError"
    /\ kind \in { "IO24T", "IO72T" } =>
          /\ trace[1].last = << >> \/ Take(trace[1].last, 1) \notin gated
          /\ (result[1].fn \in { "_pget", "_pset" } /\ result[1].s \in gated) =>
                result[1].status \in { "none", "AttributeError" }
    /\ result[1].status = "AttributeError" =>
          /\ kind # "IO24R" /\ result[1].s \in gated
          /\ trace[1].checks = 0 /\ trace[1].opens = 0 /\ trace[1].sends = 0

\* a set of the schmitt register of a port of an IO72T raises AttributeError
C6_Witness ==
    /\ kind = "IO72T"
    /\ Depth(1) = 1
    /\ Top(1).fn = "_pset" /\ Top(1).s = b(<<"$">>)
    /\ Top(1).pc = "raise" /\ Top(1).exc = "AttributeError"

-----------------------------------------------------------------------------
(* Properties of _cmdcheck, checked under SpecClassify *)

\* the register selectors of the port API: value, direction, pull-up,
\* threshold and schmitt
Selectors == { << >>, b(<<"!">>), b(<<"@">>), b(<<"#">>), b(<<"$">>) }

\* C7: _cmdcheck returns "read" for each of the five selectors followed by a
\* lower-case port letter a..i, and "verify" (WriteVerify) for each selector
\* followed by an upper-case port letter A..I and one payload byte 0..255.
C7_Classification ==
    res # << >> =>
       /\ arg \in { sel \o << l >> : sel \in Selectors, l \in ord("a")..ord("i") }
             => res = << "read" >>
       /\ ( /\ Len(arg) >= 2
            /\ DropLast(arg) \in { sel \o << l >> : sel \in Selectors, l \in ord("A")..ord("I") }
            /\ Last(arg) \in 0..255 )
             => res = << "verify" >>

\* the write of 255 to the schmitt register of port I is classified "verify"
C7_Witness == arg = b(<<"$", "I">>) \o << 255 >> /\ res = << "verify" >>

-----------------------------------------------------------------------------
(* Properties of _iochk, checked under SpecIochk *)

\* the number of pins of a device kind
Pins == [k \in Kinds |-> IF k = "IO72T" THEN 72 ELSE 24]

\* C8: for every device kind, with N pins, N is 8 times the number of ports,
\* and for every index i in 0..N-1 _iochk returns (prt, bit, msk) with
\* prt*8 + bit = i, 0 <= bit < 8, msk = 1 << bit, which has exactly bit
\* number bit set, and prt an index into the port list of the device.
C8_PinDecomposition ==
    /\ Pins[kind] = 8 * Len(ports(kind))
    /\ (res # << >> /\ arg[1] \in 0..(Pins[kind] - 1)) =>
          LET r == res[1] IN
          /\ r.exc = ""
          /\ r.prt * 8 + r.bit = arg[1]
          /\ r.bit \in 0..7
          /\ r.msk = 2 ^ r.bit
          /\ { i \in 0..7 : Bit(r.msk, i) = 1 } = { r.bit }
          /\ r.prt \in 0..(Len(ports(kind)) - 1)

\* the last pin of an IO72T is bit 7 of its ninth port
C8_Witness ==
    /\ kind = "IO72T" /\ arg = << 71 >> /\ res # << >>
    /\ res[1].exc = "" /\ res[1].prt = 8 /\ res[1].bit = 7 /\ res[1].msk = 128

-----------------------------------------------------------------------------
(* Properties of the pin view, checked under SpecPin *)

\* the values a pin may be set to
PinValues ==
    { "i:0", "s:0", "s:L", "s:LO", "s:LOW", "s:OFF", "i:1", "s:1", "s:H", "s:HI", "s:HIGH", "s:ON" }

\* the pin access of frame f has an index outside 0..N-1
BadIndex(f) == f.io < 0 \/ f.io >= Pins[kind]

\* the pin access of frame f is a set to a value that is not an on/off value
BadValue(f) == f.fn = "__setitem__" /\ f.tok \notin PinValues

\* the pin access of frame f has issued no command, sent no packet and
\* changed no counter
NoPinIO(f) ==
    /\ Depth(1) = 1
    /\ f.pc \in { "start", "raise" }
    /\ trace[1].checks = 0 /\ trace[1].opens = 0 /\ trace[1].sends = 0
    /\ counters = trace[1].stats0

\* C9: a pin set to a value outside the on/off values raises ValueError,
\* whatever its index; a pin get, or a pin set to an on/off value, with an
\* index < 0 or >= N raises IndexError; in both cases no command is issued,
\* no packet is sent and no counter changes.
C9_PinValidation ==
    \A f \in Frames : f.fn \in { "__getitem__", "__setitem__" } =>
       /\ BadValue(f) => NoPinIO(f) /\ (f.pc = "raise" => f.exc = "ValueError")
       /\ (BadIndex(f) /\ ~BadValue(f)) => NoPinIO(f) /\ (f.pc = "raise" => f.exc = "IndexError")

\* C9 as stated: every pin get or set with an index < 0 or >= N raises
\* IndexError, and every pin set to a value outside the on/off values raises
\* ValueError, with no command, packet or counter change in either case.
C9_AsStated ==
    \A f \in Frames : f.fn \in { "__getitem__", "__setitem__" } =>
       /\ BadIndex(f) => NoPinIO(f) /\ (f.pc = "raise" => f.exc = "IndexError")
       /\ BadValue(f) => NoPinIO(f) /\ (f.pc = "raise" => f.exc = "ValueError")

\* pin -1 is set to "lo", which is no on/off value, and ValueError is raised
C9_Witness ==
    /\ Depth(1) = 1
    /\ Top(1).fn = "__setitem__" /\ Top(1).io = -1 /\ Top(1).tok = "s:lo"
    /\ Top(1).pc = "raise" /\ Top(1).exc = "ValueError"

-----------------------------------------------------------------------------
(* Properties of the mac accessors, checked under SpecMac *)

\* C10: eioudp.mac, called by the mac property of a device of any kind, never
\* raises: when the identify command raises TimeoutError it returns None, and
\* it returns a MAC string only when the identify command returned.
C10_MacAbsorbs ==
    /\ \A f \in Frames : f.fn = "mac" =>
          /\ f.pc # "raise"
          /\ f.exc \in { "", "TimeoutError" }
          /\ f.exc = "TimeoutError" => f.pc \in { "except", "return" }
          /\ f.pc = "return" => (f.retv = None <=> f.exc = "TimeoutError")
    /\ result[1].fn = "mac" =>
          /\ result[1].status \in { "none", "return" }
          /\ result[1].status = "return" =>
                (result[1].val = None <=> result[1].exc = "TimeoutError")

\* the mac property of an IO24R has returned None after the identify command
\* used up a retry bound of 1
C10_Witness ==
    /\ kind = "IO24R" /\ retries = 1
    /\ Idle(1)
    /\ result[1].fn = "mac" /\ result[1].status = "return"
    /\ result[1].val = None /\ result[1].exc = "TimeoutError"
    /\ _cnt_rd_retries = 2

-----------------------------------------------------------------------------
(* Properties of addrtuple, checked under SpecAddr *)

\* the decimal text of the octets used
OctetText == [o \in Octets |-> IF o = 0 THEN <<"0">>
                               ELSE IF o = 10 THEN <<"1", "0">> ELSE <<"2", "5", "5">>]

\* the dotted host of four octets given as ints
Dotted(q) ==
    OctetText[q[1].n] \o <<".">> \o OctetText[q[2].n] \o <<".">>
        \o OctetText[q[3].n] \o <<".">> \o OctetText[q[4].n]

\* the number that the digits ds write, by the weight of each position
RECURSIVE Weighted(_, _)
Weighted(ds, i) ==
    IF i > Len(ds) THEN 0
    ELSE (ord(ds[i]) - ord("0")) * (10 ^ (Len(ds) - i)) + Weighted(ds, i + 1)

\* addrtuple returned the pair (a, q)
Gives(a, q) == res = << [exc |-> "", addr |-> a, port |-> q] >>

-----------------------------------------------------------------------------
(* Properties of eioudp.cmd over the command kinds, checked under SpecKinds *)

\* frame f is a call of eioudp.cmd that write validation does not apply to
NotValidated(f) ==
    f.fn = "cmd" /\ (_cmdcheck(f.cmd) \in { "read", "write" } \/ ~write_validate)

ValidationPcs == { "dirret", "vloop", "vcmp", "ropen", "rsend" }

\* a call that validation does not apply to is the innermost call, is in no
\* part of the validation, and has made no direction read, read-back or resend
C12_NoValidationState ==
    \A i \in 1..Depth(1) :
       LET f == stack[1][i] IN
       NotValidated(f) =>
          /\ i = Depth(1)
          /\ f.pc \notin ValidationPcs
          /\ f.dirv = -1 /\ f.rounds = 0 /\ f.resends = 0 /\ f.rb = -1
          /\ _cnt_wr_retries = f.wr0 \/ f.pc = "start"

\* a step of such a call starts no call, sends no datagram but its own
\* command, and leaves _cnt_wr_retries and _max_wr_retries as they are
C12_NoValidationStep ==
    (~Idle(1) /\ NotValidated(Top(1))) =>
       /\ Depth(1)' <= Depth(1)
       /\ trace'[1].last \in { trace[1].last, Top(1).cmd }
       /\ _cnt_wr_retries' = _cnt_wr_retries
       /\ _max_wr_retries' = _max_wr_retries

\* C12: for a Read or Write command, and for any command when write_validate
\* is off, eioudp.cmd makes no direction read, no read-back and no resend, and
\* changes neither _cnt_wr_retries nor _max_wr_retries.
C12_ValidationOnlyWhenAsked == []C12_NoValidationState /\ [][C12_NoValidationStep]_vars

\* an EEPROM word write returns with write_validate on
C12_Witness ==
    /\ write_validate
    /\ Depth(1) = 1
    /\ Top(1).fn = "cmd" /\ Top(1).cmd = b(<<"'", "W">>) \o << 6, 1, 2 >>
    /\ Top(1).pc = "return" /\ Top(1).att = 2

-----------------------------------------------------------------------------
(* Properties of the statistics of eioudp, checked under Spec *)

\* C13: in every step other than stats_clear none of the six counters of
\* eioudp (_cnt_cmds, _cnt_pkts, _cnt_rd_retries, _cnt_wr_retries,
\* _max_rd_retries, _max_wr_retries) decreases, and stats_clear leaves all six
\* at zero.
C13_Monotonic ==
    [][ IF stats_clear
        THEN /\ _cnt_cmds' = 0 /\ _cnt_pkts' = 0 /\ _cnt_rd_retries' = 0
             /\ _cnt_wr_retries' = 0 /\ _max_rd_retries' = 0 /\ _max_wr_retries' = 0
        ELSE /\ _cnt_cmds' >= _cnt_cmds /\ _cnt_pkts' >= _cnt_pkts
             /\ _cnt_rd_retries' >= _cnt_rd_retries /\ _cnt_wr_retries' >= _cnt_wr_retries
             /\ _max_rd_retries' >= _max_rd_retries /\ _max_wr_retries' >= _max_wr_retries ]_vars

-----------------------------------------------------------------------------
(* C14: termination and nesting depth *)

\* the command of frame f is one that _cmdcheck accepts
ValidCmd(f) == f.fn = "cmd" /\ _cmdcheck(f.cmd) # "None"

\* the calls that validation makes are Read commands, which validate nothing
\* and call nothing; a valid command raises nothing but TimeoutError
C14_Nesting ==
    /\ Depth(1) <= 2
    /\ Depth(1) = 2 =>
         /\ stack[1][1].pc \in { "dirret", "vcmp" }
         /\ stack[1][1].cmdtype = "verify"
         /\ ValidCmd(stack[1][2]) /\ _cmdcheck(stack[1][2].cmd) = "read"
         /\ stack[1][2].pc \notin ValidationPcs
    /\ \A i \in 1..Depth(1) :
         ValidCmd(stack[1][1]) /\ stack[1][i].pc = "raise" => stack[1][i].exc = "TimeoutError"

\* C14: whatever the transport does (a send that raises, a datagram lost, a
\* read-back that disagrees), a call of eioudp.cmd with a valid command and
\* any retry bound eventually returns or raises TimeoutError; the calls made
\* by write validation are Read commands that start no validation of their
\* own, so that the nesting depth never exceeds 2.
C14_Termination ==
    /\ []C14_Nesting
    /\ (~Idle(1) /\ ValidCmd(stack[1][1]))
          ~> (Idle(1) /\ result[1].status \in { "return", "TimeoutError" })

\* a read-back is in progress after a resend of the write
C14_Witness ==
    /\ Depth(1) = 2
    /\ stack[1][1].pc = "vcmp" /\ stack[1][1].resends >= 1
    /\ stack[1][2].pc = "recv"

-----------------------------------------------------------------------------
(* C15: the socket of an attempt *)

\* the places inside a with block, where the socket of the attempt is open
InWith == { "connect", "send", "recv", "rsend" }

\* a socket is open exactly while the innermost call is inside a with block,
\* there is never more than one, and none is open when a call returns or
\* raises or no call is running
C15_SocketState ==
    /\ nsock \in { 0, 1 }
    /\ nsock = 1 <=> (~Idle(1) /\ Top(1).pc \in InWith)
    /\ trace[1].sends <= trace[1].opens
    /\ \A i \in 1..Depth(1) - 1 : stack[1][i].pc \notin InWith

\* a send goes out on the open socket, which then only waits for the response
\* or is closed; a socket is opened only when none is open
C15_SocketStep ==
    /\ trace'[1].sends > trace[1].sends =>
         /\ nsock = 1
         /\ nsock' = 0 \/ Top(1)'.pc = "recv"
    /\ trace'[1].opens > trace[1].opens => nsock = 0 /\ nsock' = 1

\* C15: every attempt of eioudp.cmd and eiotcp.cmd, a resend of validation
\* included, runs in a socket of its own that is closed on every way out;
\* at most one socket is open at any moment and none is open when the call
\* returns or raises, TimeoutError included.
C15_ScopedSocket == []C15_SocketState /\ [][C15_SocketStep]_vars

\* a validation has raised TimeoutError after a resend that itself raised
C15_Witness ==
    /\ ~Idle(1) /\ Top(1).fn = "cmd" /\ Top(1).pc = "raise" /\ Top(1).at = "validation"
    /\ Top(1).rfails >= 1
    /\ trace[1].opens >= 3
    /\ nsock = 0

-----------------------------------------------------------------------------
(* C16: one exchange at a time *)

\* a call that has called another waits for it; the calls of a validation
\* are made after the write was sent, a resend after a read-back has
\* returned, and a response is awaited for the datagram sent last
C16_Order ==
    /\ Idle(1) => nsock = 0
    /\ \A i \in 1..Depth(1) - 1 : stack[1][i].pc \in { "dirret", "vcmp" }
    /\ Depth(1) = 2 => trace[1].sends >= 1 /\ stack[1][1].att >= 1
    /\ \A i \in 1..Depth(1) :
         LET f == stack[1][i] IN
         /\ f.fn = "cmd" /\ f.pc \in ValidationPcs => trace[1].sends >= 1 /\ f.att >= 1
         /\ f.fn = "cmd" /\ f.pc \in { "ropen", "rsend" } =>
               /\ i = Depth(1)
               /\ f.rb # -1
               /\ f.rounds = f.resends + 1
         /\ f.pc = "recv" => trace[1].last = f.cmd

\* a datagram is sent by the innermost call and is its command; the first
\* datagram of a call is sent by the call itself, before any call it makes
C16_SendStep ==
    trace'[1].sends > trace[1].sends =>
      /\ ~Idle(1) /\ Top(1).pc \in { "send", "rsend" }
      /\ trace'[1].last = Top(1).cmd
      /\ Depth(1)' = Depth(1)
      /\ trace[1].sends = 0 => Depth(1) = 1

\* C16: one caller's commands are not pipelined: a datagram of a later
\* command is never sent before the earlier call has returned or raised, the
\* direction read and the read-backs of a write validation are sent only
\* after the send of the write has succeeded, and a resend only after the
\* read-back before it has returned.
C16_NoPipelining == []C16_Order /\ [][C16_SendStep]_vars

\* the second resend of a write is about to be sent
C16_Witness ==
    /\ Depth(1) = 1 /\ Top(1).fn = "cmd" /\ Top(1).pc = "rsend"
    /\ Top(1).resends = 1 /\ Top(1).rounds = 2
    /\ trace[1].sends >= 4

-----------------------------------------------------------------------------
(* C17: the count of commands issued *)

\* C17: a call of eioudp.cmd made by a caller that returns normally has
\* raised ttl_cmds by exactly 1, whatever the kind of its command, a write to
\* a value register under write validation included: the direction read and
\* the read-backs are not counted.
C17_CallerCommands ==
    Depth(1) = 1 /\ Top(1).fn = "cmd" /\ Top(1).pc = "return"
      => _cnt_cmds = trace[1].stats0[1] + 1

-----------------------------------------------------------------------------
(* C18: the count of packets *)

\* since the call of eioudp.cmd began, _cnt_pkts has grown by the datagrams
\* it has sent and the responses it has received
C18_CallPackets ==
    ~Idle(1) /\ stack[1][1].fn = "cmd"
      => (_cnt_pkts = trace[1].stats0[2] + trace[1].sends + trace[1].recvs)

\* a step in which sendto or recvfrom raises, and a step that ends a call or
\* is outside any call, stats_clear excepted, leaves _cnt_pkts as it is;
\* stats_clear zeroes it
C18_PacketStep ==
    /\ ( /\ ~Idle(1) /\ Top(1).fn = "cmd" /\ Top(1).pc \in { "send", "recv", "rsend" }
         /\ trace'[1].sends = trace[1].sends /\ trace'[1].recvs = trace[1].recvs )
       => (_cnt_pkts' = _cnt_pkts)
    /\ (Idle(1) \/ Idle(1)') => (_cnt_pkts' = IF stats_clear THEN 0 ELSE _cnt_pkts)

\* C18: since the last clear ttl_pkts is the number of datagrams sent
\* successfully (first sends, retried sends, the reads of validation and its
\* resends) plus the number of responses received; a send that raises and a
\* receive that times out add nothing.
C18_PacketAccounting == []C18_CallPackets /\ [][C18_PacketStep]_vars

\* a validated write has returned after a failed send, a lost response and a
\* resend: datagrams were sent and received, and some attempts added nothing
C18_Witness ==
    /\ Idle(1) /\ result[1].fn = "cmd" /\ result[1].status = "return"
    /\ trace[1].recvs >= 2 /\ trace[1].sends >= 4
    /\ trace[1].opens > trace[1].sends
    /\ _cnt_wr_retries >= 1
    /\ _cnt_pkts = trace[1].sends + trace[1].recvs

-----------------------------------------------------------------------------
(* C19: the maximum retry depths *)

\* the exchanges of the base loop of f that failed, and the read-backs of
\* its validation that disagreed
FailedAttempts(f) == IF f.pc = "raise" /\ f.at = "base" THEN f.att ELSE f.att - 1
Mismatches(f) == f.resends

\* C19: the maximum read-retry depth is recorded at every failure of the
\* base loop, so that when a command of eioudp.cmd has returned or has raised
\* TimeoutError, max_rd_retry is at least the number of attempts of it that
\* failed, and max_wr_retry at least the number of read-backs of its
\* validation that disagreed.
C19_MaxDepthRecorded ==
    \A i \in 1..Depth(1) :
      LET f == stack[1][i] IN
      f.fn = "cmd" /\ (f.pc = "return" \/ (f.pc = "raise" /\ f.at # ""))
        => /\ _max_rd_retries >= FailedAttempts(f)
           /\ _max_wr_retries >= Mismatches(f)

-----------------------------------------------------------------------------
(* C20: the retry bound of a call *)

\* the datagrams a call with retry bound r may send: the attempts of the
\* write, of the direction read, of r + 1 read-backs, and r + 1 resends
SendBound(r) == (r + 1) + (r + 1) + (r + 1) * (r + 1) + (r + 1)

\* C20: the retry bound R of a call of eioudp.cmd governs every layer of it:
\* the base exchange, the direction read and each read-back of the
\* validation make at most R + 1 attempts each, so that the datagrams sent
\* by the call are bounded by a function of R alone.
C20_PerCallBound ==
    ~Idle(1) /\ stack[1][1].fn = "cmd" /\ stack[1][1].pc # "start" /\ stack[1][1].cmdtype # "None"
      => LET R == stack[1][1].retries IN
         /\ \A i \in 1..Depth(1) : stack[1][i].att <= R + 1
         /\ trace[1].sends <= SendBound(R)

-----------------------------------------------------------------------------
(* C21: a read over the stream transport *)

\* the responses the device may give to the command of frame f
Responses(f) == { DevHandle(dev, kind, f.cmd, ext).rsp : ext \in ExtLevels }

\* C21: when eiotcp.cmd is called with a Read command and connect, send and
\* receive all succeed at the first attempt, the call returns the response
\* bytes received after that one attempt: it does not retry and does not
\* raise TimeoutError.
C21_StreamRead ==
    ( /\ ~Idle(1) /\ Top(1).fn = "tcp" /\ Top(1).cmdtype = "read"
      /\ Top(1).att = 1 /\ trace[1].recvs = 1 )
      => /\ Top(1).pc = "return" /\ Top(1).tries = 0
         /\ Top(1).retv \in Responses(Top(1))

-----------------------------------------------------------------------------
(* C22: the bytes on the wire *)

\* byte x with an upper-case port letter A..I made lower case
PortLetterLowered(x) == IF x \in 65..73 THEN x + 32 ELSE x

\* w without its last byte and with its port letter in lower case
ReadBackOf(w) == [j \in 1..Len(w) - 1 |-> PortLetterLowered(w[j])]

\* a running call of eioudp.cmd keeps the command it was given; a datagram
\* sent by the call itself is that command, and a datagram sent by a call
\* of its validation is the read of the direction register or the read-back
C22_WireStep ==
    ~Idle(1) /\ stack[1][1].fn = "cmd" =>
      /\ ~Idle(1)' => stack'[1][1].cmd = stack[1][1].cmd
      /\ trace'[1].sends > trace[1].sends =>
           LET w == stack[1][1].cmd
               sent == trace'[1].last
           IN /\ sent[1] # ord("_")
              /\ Depth(1) = 1 => sent = w
              /\ Depth(1) = 2 /\ stack[1][1].pc = "dirret" =>
                    sent = << ord("!"), PortLetterLowered(w[1]) >>
              /\ Depth(1) = 2 /\ stack[1][1].pc = "vcmp" => sent = ReadBackOf(w)

\* C22: every datagram that carries a command passed to eioudp.cmd, whether
\* first send, retry or resend of the validation, is byte for byte the
\* caller's command; the marker that normalization puts before a value
\* register command is never sent, and the read-back command is the write
\* command without its last byte and with the port letter in lower case.
C22_WireBytes == [][C22_WireStep]_vars

\* a write to a value register has been sent, read back and sent again
C22_Witness ==
    /\ Depth(1) = 1 /\ Top(1).fn = "cmd" /\ Top(1).pc = "vloop"
    /\ Top(1).cmd = b(<<"A", "*">>)
    /\ Top(1).resends = 1 /\ Top(1).rfails = 0
    /\ trace[1].last = Top(1).cmd

-----------------------------------------------------------------------------
(* C23: a pin set changes one bit *)

\* the values that switch a pin on, and the bit a value asks for
OnValues == { "i:1", "s:1", "s:H", "s:HI", "s:HIGH", "s:ON" }
Wanted(tok) == IF tok \in OnValues THEN 1 ELSE 0

\* the lower-case letter of the port that holds pin io
PortLetterOf(io) == ord("a") + io \div 8

\* the port that holds pin io is all-output on the device
AllOutput(io) == dev[<< ord("!"), PortLetterOf(io) >>] = 0

\* a pin set reads the value register of the port of the pin and writes the
\* byte read with the bit of the pin as asked and the other bits as read;
\* every datagram of the call names that port
C23_OneBit ==
    ~Idle(1) /\ stack[1][1].fn = "__setitem__" =>
      LET f == stack[1][1] IN
      /\ Depth(1) >= 2 =>
           LET g == stack[1][2] IN
           /\ g.fn \in { "_pget", "_pset" } /\ g.s = << >>
           /\ PortLetterLowered(g.port[1]) = PortLetterOf(f.io)
           /\ g.fn = "_pget" <=> f.pc = "mod"
           /\ g.fn = "_pset" =>
                 \A j \in 0..7 :
                    Bit(g.v, j) = IF j = f.io % 8 THEN Wanted(f.tok) ELSE Bit(f.got, j)
      /\ trace[1].last # << >> =>
           PortLetterLowered(normalize(trace[1].last)[2]) = PortLetterOf(f.io)

\* a get of pin i that returns after a set of pin i that returned normally,
\* the port being all-output, returns the bit that was set
C23_ReadsBack ==
    ( /\ Depth(1) = 1 /\ Top(1).fn = "__getitem__" /\ Top(1).pc = "return"
      /\ trace[1].pinset.io = Top(1).io
      /\ AllOutput(Top(1).io) )
      => Top(1).retv = Wanted(trace[1].pinset.tok)

\* C23 as stated: with a single caller a pin set reads the value register of
\* port i/8 and writes that value back with bit i%8 set or cleared and the
\* other seven bits as read, sends no command to another port, and after it
\* has returned normally on an all-output port a read of pin i returns the
\* value set.
C23_AsStated == C23_OneBit /\ C23_ReadsBack

\* C23: with a single caller a pin set reads the value register of port i/8
\* and writes that value back with bit i%8 set or cleared and the other
\* seven bits as read, and sends no command to another port; with write
\* validation enabled, after it has returned normally on an all-output port
\* a read of pin i returns the value set.
C23_PinSet == C23_OneBit /\ (write_validate => C23_ReadsBack)

\* pin 5 was switched off in the pattern 10100101 under write validation, and
\* a read of pin 5 returns 0 with the other bits still in place
C23_Witness ==
    /\ Depth(1) = 1 /\ Top(1).fn = "__getitem__" /\ Top(1).pc = "return"
    /\ Top(1).io = 5 /\ Top(1).retv = 0
    /\ trace[1].pinset = [io |-> 5, tok |-> "s:LO"]
    /\ write_validate
    /\ dev[<< ord("_"), ord("a") >>] = 133

-----------------------------------------------------------------------------
(* C24: two callers and one port *)

\* the pin sets of both callers have returned normally
BothReturned ==
    \A c \in Callers :
       Idle(c) /\ result[c].fn = "__setitem__" /\ result[c].status = "return"

\* the value register of port A on the device
PortA == dev[<< ord("_"), ord("a") >>]

\* the pin that caller c set has on the device the value that c set
PinHolds(c) == Bit(PortA, trace[c].pinset.io % 8) = Wanted(trace[c].pinset.tok)

\* C24: nothing keeps two callers apart: when both set a pin of the same
\* all-output port and both sets return normally, write validation having
\* passed for each, the port holds the value of at least one of the two pins
\* and the bits of the other pins as they were, but it need not hold both:
\* an interleaving exists in which one of the two pin values is lost.
C24_NoMutualExclusion ==
    BothReturned =>
      /\ \E c \in Callers : PinHolds(c)
      /\ \A j \in 0..7 : j \notin { 3, 5 } => Bit(PortA, j) = Bit(165, j)

\* both sets have returned normally, every exchange having succeeded, and
\* pin 3, which caller 1 switched on, is off
C24_Witness ==
    /\ BothReturned
    /\ ~PinHolds(1) /\ PinHolds(2)
    /\ _cnt_rd_retries = 0 /\ _cnt_wr_retries = 0

-----------------------------------------------------------------------------
(* C25: what the classifier accepts, checked under SpecClassify *)

\* cmd is a selector of sels, a port letter a..i and nothing more
RegisterRead(cmd, sels) == cmd \in { sel \o << l >> : sel \in sels, l \in ord("a")..ord("i") }

\* cmd is a selector of sels, a port letter A..I and one payload byte
RegisterWrite(cmd, sels) ==
    /\ Len(cmd) >= 2
    /\ DropLast(cmd) \in { sel \o << l >> : sel \in sels, l \in ord("A")..ord("I") }
    /\ Last(cmd) \in 0..255

\* cmd is an identify, EEPROM, reset or SPI command
OtherRule(cmd) ==
    \/ cmd \in { b(<<"I", "O", "2", "4">>), b(<<"'", "I", "O", "7", "2">>) }
    \/ /\ Len(cmd) = 5
       /\ Take(cmd, 2) \in { b(<<"'", "R">>), b(<<"'", "W">>), b(<<"'", "E">>), b(<<"'", "0">>),
                             b(<<"'", "1">>), b(<<"'", "w">>), b(<<"'", "@">>) }
    \/ Len(cmd) = 4 /\ Take(cmd, 2) = b(<<"'", "r">>)
    \/ cmd = b(<<"'", "@">>)
    \/ cmd \in { b(<<"S", "1", "A">>), b(<<"S", "0", "A">>) }
    \/ Len(cmd) >= 2 /\ Take(cmd, 2) = b(<<"S", "A">>)

\* with sels the register selectors: a command is classified a register read
\* or a write to verify only when it has the form of one, and a command that
\* matches no rule is classified invalid
Complete(sels) ==
    res # << >> =>
       /\ res = << "verify" >> => RegisterWrite(arg, sels)
       /\ (res = << "read" >> /\ ~OtherRule(arg)) => RegisterRead(arg, sels)
       /\ (~OtherRule(arg) /\ ~RegisterRead(arg, sels) /\ ~RegisterWrite(arg, sels))
             => res = << "None" >>

\* C25 as stated: a command is classified as a register Read or WriteVerify
\* only when its selector is one of the five selectors value, !, @, # and $,
\* followed by a port letter a..i (Read) or by A..I and one payload byte
\* (WriteVerify), and every byte sequence that matches none of the rules
\* (identify, register read and write, EEPROM, reset, SPI) is Invalid.
C25_AsStated == Complete(Selectors)

\* C25: a command is classified as a register Read or WriteVerify only when
\* its selector is one of the six selectors value, !, @, #, $ and %,
\* followed by a port letter a..i (Read) or by A..I and one payload byte
\* (WriteVerify), and every byte sequence that matches none of the rules
\* (identify, register read and write, EEPROM, reset, SPI) is Invalid.
C25_Completeness == Complete(Selectors \cup { b(<<"%">>) })

\* the read of the newer pull-up register of port A is classified "read"
C25_Witness == arg = b(<<"%", "a">>) /\ res = << "read" >>

-----------------------------------------------------------------------------
(* C26: the maximum depths and the retry counts *)

\* neither maximum depth exceeds the count of retries of its kind
C26_MaxBelowCount ==
    /\ 0 <= _max_rd_retries /\ _max_rd_retries <= _cnt_rd_retries
    /\ 0 <= _max_wr_retries /\ _max_wr_retries <= _cnt_wr_retries

\* the retry bound in force in the innermost call: its retries argument, or
\* eioudp.retries when it was given none
BoundInForce == IF Idle(1) THEN -1 ELSE Top(1).retries

\* a maximum depth changes only when stats_clear zeroes it or a call records
\* a depth that its retry bound allows
C26_MaxStep ==
    /\ _max_rd_retries' # _max_rd_retries =>
         \/ stats_clear
         \/ /\ ~Idle(1) /\ Top(1).fn = "cmd" /\ Top(1).pc \in { "send", "recv" }
            /\ _max_rd_retries' <= BoundInForce
    /\ _max_wr_retries' # _max_wr_retries =>
         \/ stats_clear
         \/ /\ ~Idle(1) /\ Top(1).fn = "cmd" /\ Top(1).pc = "rsend"
            /\ _max_wr_retries' <= BoundInForce

\* C26: in a single-threaded run max_rd_retry never exceeds ttl_rd_retries
\* nor max_wr_retry ttl_wr_retries, and neither maximum exceeds the largest
\* retry bound in force in a call made since the last stats_clear: each is
\* zero after the clear and is raised only to a depth within the bound of
\* the call that records it.
C26_CounterInvariant == []C26_MaxBelowCount /\ [][C26_MaxStep]_vars

\* one validated write has retried its exchange once and its write once
C26_Witness ==
    /\ Idle(1) /\ result[1].fn = "cmd" /\ result[1].status = "return"
    /\ _max_rd_retries = 1 /\ _max_wr_retries = 1
    /\ _cnt_rd_retries >= 1 /\ _cnt_wr_retries >= 1

====
